---- MODULE Spec2Model ----
(***************************************************************************)
(* Koenote client (src/frontend/src/app/page.tsx, component KoenotoApp):   *)
(* the record -> upload -> start-processing -> poll pipeline as a state     *)
(* machine.  One action is one JavaScript turn of a handler: the code from  *)
(* an event or a resolved await up to the next await.  React state is set   *)
(* by the setters (no-ops once the component is unmounted); the effect      *)
(* cleanup of useEffect(..., [pollingInterval]) runs when React commits a   *)
(* render in which pollingInterval differs from the value the mounted       *)
(* effect captured, and at unmount.                                         *)
(***************************************************************************)
EXTENDS Integers, Sequences, FiniteSets, TLC

\* ------------------------------------------------------------------ bounds
\* Recording sessions (record-button start/stop pairs) in one behaviour.
MaxRec == 2
\* Status requests of one poll timer that may be outstanding at once.
MaxInflight == 1
\* Chunks handed to uploadChunks in the uploader's own specification.
MaxChunks == 3
\* List requests (fetchRecordings) that may be outstanding at once.
MaxList == 2
\* Recordings the backend may hold.
MaxItems == 1
\* Recordings saved on top of them (calls of uuid()).
MaxSaves == 2
\* Status requests of one timer outstanding at once where responses are
\* slower than the tick period.
MaxOverlap == 2
\* Requests of the Recording Store (save, delete, get) outstanding at once.
MaxPending == 2

\* --------------------------------------------------------------- constants
\* createChunks: MAX_CHUNK_SIZE = 0.1 * 1024 * 1024 = 104857.6 bytes; a blob
\* size is an integer, so size <= MAX_CHUNK_SIZE iff size <= 104857.
MAX_CHUNK_SIZE == 104857

Runs == 1..MaxRec

\* ------------------------------------------------------------------ values
\* status (useState("")): the text shown, by kind; err, n1, n2 are what the
\* template strings interpolate.
Msg(kind) == [kind |-> kind, err |-> "", n1 |-> 0, n2 |-> 0]
Err(name, n1, n2) == [name |-> name, n1 |-> n1, n2 |-> n2]

\* `チャンク ${i+1}/${chunks.length} をアップロード中...`
UploadingMsg(i, n) == [kind |-> "uploading", err |-> "", n1 |-> i + 1, n2 |-> n]
\* "音声処理に失敗しました: " + error.message
ProcessFailedMsg(e) == [kind |-> "processFailed", err |-> e.name, n1 |-> e.n1, n2 |-> e.n2]

HttpErr == {500}
Keys == {"k1"}
NoUrl == <<>>

\* Blob.type values and chunk.type.includes('webm')
BlobTypes == {"audio/webm", "audio/wav"}
IncludesWebm(t) == t \in {"audio/webm", "audio/webm;codecs=opus", "video/webm"}

\* Mutant of ContentTypeOf: the blob's declared type is sent as it is.
ContentTypeOfDeclared(t) == t

\* chunk.type.includes('webm') ? 'audio/webm' : 'audio/wav' (290)
ContentTypeOf(t) == IF IncludesWebm(t) THEN "audio/webm" ELSE "audio/wav"

Blob(type, size) == [type |-> type, size |-> size]
BlobSizes == {MAX_CHUNK_SIZE - 1, MAX_CHUNK_SIZE, MAX_CHUNK_SIZE + 1}
\* The size of a recording's blob in the pipeline's specification.
RecordedSizes == {MAX_CHUNK_SIZE + 1}

\* Mutant of createChunks: a blob over the threshold is sliced.
createChunksSliced(audioBlob) ==
  IF audioBlob.size <= MAX_CHUNK_SIZE THEN <<audioBlob>>
  ELSE <<Blob(audioBlob.type, MAX_CHUNK_SIZE),
         Blob(audioBlob.type, audioBlob.size - MAX_CHUNK_SIZE)>>

\* createChunks: both branches return the original blob as the only chunk.
createChunks(audioBlob) ==
  IF audioBlob.size <= MAX_CHUNK_SIZE THEN <<audioBlob>> ELSE <<audioBlob>>

\* `https://${AUDIO_BUCKET_NAME}.s3.amazonaws.com/${key}` as path segments
ChunkUrl(key) == <<"https:", "", "bucket.s3.amazonaws.com", key>>
MapChunkUrls(keys) == [j \in 1..Len(keys) |-> ChunkUrl(keys[j])]

\* audioUrl.split('/').pop(): the last segment
SplitPop(url) == url[Len(url)]

\* The responses of POST /koenoto/presigned-url.
\* kind "reject": fetch rejects; "http": a non-success status; "ok": a JSON
\* body with presignedUrl, key, audioUrl, each possibly absent ("" / <<>>).
PresignBodies ==
  [presignedUrl : {"", "url"}, key : Keys \cup {""},
   audioUrl : {NoUrl, <<"https:", "", "bucket", "k3">>, <<"https:", "", "bucket", "">>}]
PresignResponses ==
  {[kind |-> "reject", code |-> 0, body |-> [presignedUrl |-> "", key |-> "", audioUrl |-> NoUrl]]}
  \cup {[kind |-> "http", code |-> c, body |-> [presignedUrl |-> "", key |-> "", audioUrl |-> NoUrl]] : c \in HttpErr}
  \cup {[kind |-> "ok", code |-> 200, body |-> b] : b \in PresignBodies}

\* The responses of the PUT to the presigned URL.
PutResponses ==
  {[kind |-> "reject", code |-> 0], [kind |-> "ok", code |-> 200]}
  \cup {[kind |-> "http", code |-> c] : c \in HttpErr}

\* The uploader's responses drawn in the pipeline's specification: one of
\* each outcome of a chunk (the uploader's own specification draws them all).
PipelinePresignResponses ==
  {resp \in PresignResponses :
     \/ resp.kind = "http"
     \/ resp.kind = "ok" /\ resp.body.audioUrl = NoUrl /\ resp.body.key # ""}
PipelinePutResponses == {resp \in PutResponses : resp.kind # "reject"}

\* Mutant of DerivedKey: the audio URL's last segment is preferred to the key.
DerivedKeyUrlFirst(body) ==
  IF body.audioUrl # NoUrl THEN SplitPop(body.audioUrl) ELSE body.key

\* let key = presignedData.key; if (!key && presignedData.audioUrl) key = pop
DerivedKey(body) ==
  IF body.key = "" /\ body.audioUrl # NoUrl THEN SplitPop(body.audioUrl) ELSE body.key

\* Mutant of PresignInvalid: the response is refused only when both are missing.
PresignInvalidBoth(body) == body.presignedUrl = "" /\ DerivedKey(body) = ""

\* if (!presignedUrl || !key) throw
PresignInvalid(body) == body.presignedUrl = "" \/ DerivedKey(body) = ""

\* ------------------------------------------------------------------- state
VARIABLES
  mounted,            \* the component is mounted
  isRecording, status, processingStatus, executionArn, pollingInterval,
  isEditingBeforeSave, title, transcript, summary, keywords, audioChunks,
  recordings,         \* useState values
  effectDep,          \* pollingInterval captured by the mounted effect's cleanup
  mediaRecorder,      \* mediaRecorder.current (0: null)
  recorders,          \* each session's MediaRecorder / getUserMedia promise
  runs,               \* each processAudio invocation's frame
  timers,             \* live setInterval handles created by startPolling
  inflight,           \* per timer, the outstanding status requests
  backend,            \* per execution, the workflow's state at the backend
  items,              \* the backend's recordings
  listInflight,       \* outstanding fetchRecordings requests
  selectedRecording,  \* useState: the id of the recording shown (0: null)
  lastSelected,       \* history: the recording the user selected last (0: none)
  isLoading,          \* useState
  pending,            \* the Recording Store's requests in flight, per recording
  served,             \* list responses the backend has sent, still to arrive
  poller,             \* history: each execution's Status Poller state
  halted              \* history: the polls a new recording session found live

react == <<isRecording, status, processingStatus, executionArn, pollingInterval,
           isEditingBeforeSave, title, transcript, summary, keywords, audioChunks,
           recordings>>
resultFields == <<title, transcript, summary, keywords>>
pollVars == <<timers, inflight, backend, poller, halted>>
store == <<isLoading, pending, served>>
vars == <<mounted, react, effectDep, mediaRecorder, recorders, runs, pollVars,
          items, selectedRecording, lastSelected, store, listInflight>>

\* A state setter: ignored once the component is unmounted.
Put(old, new) == IF mounted THEN new ELSE old

\* --------------------------------------------------- processAudio's frame
\* pc: where the invocation is suspended.  "idle": not invoked; "call": about
\* to run (uploader specification only); "presign"/"put": uploadChunks awaits
\* chunk i's presign/PUT response; "post": awaits the start-processing
\* response; "done": returned; "failed": threw.
\* uploadedUrls, key, contentType, i: uploadChunks' locals; chunkKeys:
\* processAudio's local (<<>> until assigned).  log (the requests issued) and
\* stored (the keys whose PUT succeeded, i.e. objects in the bucket) are
\* history, never read by the code, as are resolved (the number of responses
\* received) and last (the last response's kind; "invalid": a successful
\* presign response without a presigned URL or a key).
IdleRun ==
  [pc |-> "idle", chunks |-> <<>>, i |-> 0, uploadedUrls |-> <<>>, key |-> "",
   contentType |-> "", chunkKeys |-> <<>>,
   log |-> <<>>, resolved |-> 0, last |-> "", stored |-> <<>>]

Req(op, i, ct, key) == [op |-> op, i |-> i, ct |-> ct, key |-> key]

uploadFrame == <<mounted, isRecording, isEditingBeforeSave, title, transcript,
                 summary, keywords, recordings, effectDep, mediaRecorder,
                 recorders, items, selectedRecording, lastSelected, store, listInflight>>

\* Mutant of ProcessAudioCatch: the error is logged and rethrown without
\* setStatus.
ProcessAudioCatchSilent(r, f, e) ==
  /\ UNCHANGED status
  /\ processingStatus' = Put(processingStatus, "null")
  /\ runs' = [runs EXCEPT ![r] =
       [f EXCEPT !.pc = "failed", !.i = 0, !.uploadedUrls = <<>>, !.key = "",
                 !.contentType = "", !.chunkKeys = <<>>]]

\* Mutant of ProcessAudioCatch: setProcessingStatus(null) is left out.
ProcessAudioCatchKeepsProgress(r, f, e) ==
  /\ status' = Put(status, ProcessFailedMsg(e))
  /\ UNCHANGED processingStatus
  /\ runs' = [runs EXCEPT ![r] =
       [f EXCEPT !.pc = "failed", !.i = 0, !.uploadedUrls = <<>>, !.key = "",
                 !.contentType = "", !.chunkKeys = <<>>]]

\* processAudio's catch (464-469): the frames of uploadChunks and of the try
\* block are gone, the error is surfaced and rethrown.
ProcessAudioCatch(r, f, e) ==
  /\ status' = Put(status, ProcessFailedMsg(e))
  /\ processingStatus' = Put(processingStatus, "null")
  /\ runs' = [runs EXCEPT ![r] =
       [f EXCEPT !.pc = "failed", !.i = 0,
                 !.uploadedUrls = <<>>, !.key = "", !.contentType = "",
                 !.chunkKeys = <<>>]]

\* processAudio after uploadChunks returned (392-420): up to the POST.
ProcessAudioUploaded(r, f) ==
  LET chunkKeys == f.uploadedUrls IN
  IF Len(chunkKeys) = 0
  THEN /\ ProcessAudioCatch(r, f, Err("UploadEmptyError", 0, 0))
       /\ UNCHANGED audioChunks
  ELSE /\ audioChunks' = Put(audioChunks, MapChunkUrls(chunkKeys))
       /\ status' = Put(status, Msg("starting"))
       /\ processingStatus' = Put(processingStatus, "starting")
       /\ runs' = [runs EXCEPT ![r] =
            [f EXCEPT !.pc = "post", !.chunkKeys = chunkKeys,
                      !.i = 0, !.uploadedUrls = <<>>, !.key = "",
                      !.contentType = "",
                      !.log = Append(f.log, Req("post", Len(chunkKeys), "", ""))]]

\* Mutant of UploadChunksLoop: the loop returns after the first chunk.
UploadChunksLoopFirstOnly(r, f) ==
  IF f.i < Len(f.chunks) /\ f.i < 1
  THEN LET contentType == ContentTypeOf(f.chunks[f.i + 1].type) IN
       /\ status' = Put(status, UploadingMsg(f.i, Len(f.chunks)))
       /\ runs' = [runs EXCEPT ![r] =
            [f EXCEPT !.pc = "presign", !.contentType = contentType, !.key = "",
                      !.log = Append(f.log, Req("presign", f.i, contentType, ""))]]
       /\ UNCHANGED <<processingStatus, audioChunks>>
  ELSE ProcessAudioUploaded(r, f)

\* uploadChunks' for loop at index f.i (283-305): either issue chunk i's
\* presign request, or return uploadedUrls to processAudio.
UploadChunksLoop(r, f) ==
  IF f.i < Len(f.chunks)
  THEN LET contentType == ContentTypeOf(f.chunks[f.i + 1].type) IN
       /\ status' = Put(status, UploadingMsg(f.i, Len(f.chunks)))
       /\ runs' = [runs EXCEPT ![r] =
            [f EXCEPT !.pc = "presign", !.contentType = contentType, !.key = "",
                      !.log = Append(f.log, Req("presign", f.i, contentType, ""))]]
       /\ UNCHANGED <<processingStatus, audioChunks>>
  ELSE ProcessAudioUploaded(r, f)

\* processAudio(audioBlob) up to its first await, with the chunks given.
ProcessAudioWith(r, chunks) ==
  UploadChunksLoop(r, [IdleRun EXCEPT !.chunks = chunks])

\* processAudio (379-391)
processAudio(r, audioBlob) == ProcessAudioWith(r, createChunks(audioBlob))

\* Mutant of PresignResponse: the PUT is not awaited; the loop goes on to the
\* next chunk while it is outstanding.
PresignResponseNoAwait(r, resp) ==
  LET f == [runs[r] EXCEPT !.resolved = @ + 1,
                           !.last = IF resp.kind = "ok" /\ PresignInvalid(resp.body)
                                    THEN "invalid" ELSE resp.kind] IN
  /\ f.pc = "presign"
  /\ CASE resp.kind = "reject" ->
            /\ ProcessAudioCatch(r, f, Err("NetworkError", 0, 0))
            /\ UNCHANGED audioChunks
       [] resp.kind = "http" ->
            /\ ProcessAudioCatch(r, f, Err("PresignRequestError", resp.code, 0))
            /\ UNCHANGED audioChunks
       [] PresignInvalid(resp.body) ->
            /\ ProcessAudioCatch(r, f, Err("PresignResponseError", 0, 0))
            /\ UNCHANGED audioChunks
       [] OTHER ->
            UploadChunksLoop(r,
              [f EXCEPT !.log = Append(f.log, Req("put", f.i, f.contentType,
                                                  DerivedKey(resp.body))),
                        !.uploadedUrls = Append(f.uploadedUrls, DerivedKey(resp.body)),
                        !.stored = Append(f.stored, DerivedKey(resp.body)),
                        !.i = f.i + 1])
  /\ UNCHANGED <<executionArn, pollingInterval, pollVars, uploadFrame>>

\* uploadChunks resumes with chunk i's presign response (307-334).
PresignResponse(r, resp) ==
  LET f == [runs[r] EXCEPT !.resolved = @ + 1,
                           !.last = IF resp.kind = "ok" /\ PresignInvalid(resp.body)
                                    THEN "invalid" ELSE resp.kind] IN
  /\ f.pc = "presign"
  /\ CASE resp.kind = "reject" ->
            /\ ProcessAudioCatch(r, f, Err("NetworkError", 0, 0))
       [] resp.kind = "http" ->
            /\ ProcessAudioCatch(r, f, Err("PresignRequestError", resp.code, 0))
       [] PresignInvalid(resp.body) ->
            /\ ProcessAudioCatch(r, f, Err("PresignResponseError", 0, 0))
       [] OTHER ->
            /\ runs' = [runs EXCEPT ![r] =
                 [f EXCEPT !.pc = "put", !.key = DerivedKey(resp.body),
                           !.log = Append(f.log, Req("put", f.i, f.contentType,
                                                     DerivedKey(resp.body)))]]
            /\ UNCHANGED <<status, processingStatus>>
  /\ UNCHANGED <<audioChunks, executionArn, pollingInterval, pollVars, uploadFrame>>

\* Mutant of PushKey: unshift instead of push.
PushKeyFront(uploadedUrls, key) == <<key>> \o uploadedUrls

\* uploadedUrls.push(key)
PushKey(uploadedUrls, key) == Append(uploadedUrls, key)

\* Mutant of PutResponse: the loop's catch logs the error and goes on to the
\* next chunk instead of rethrowing.
PutResponseSwallowed(r, resp) ==
  LET f == [runs[r] EXCEPT !.resolved = @ + 1, !.last = resp.kind] IN
  /\ f.pc = "put"
  /\ IF resp.kind = "ok"
     THEN UploadChunksLoop(r,
            [f EXCEPT !.uploadedUrls = PushKey(f.uploadedUrls, f.key),
                      !.stored = Append(f.stored, f.key), !.i = f.i + 1])
     ELSE UploadChunksLoop(r, [f EXCEPT !.i = f.i + 1])
  /\ UNCHANGED <<executionArn, pollingInterval, pollVars, uploadFrame>>

\* Mutant of PutResponse: a failed PUT is issued once more.
PutResponseRetried(r, resp) ==
  LET f == [runs[r] EXCEPT !.resolved = @ + 1, !.last = resp.kind] IN
  /\ f.pc = "put"
  /\ IF resp.kind = "ok"
     THEN UploadChunksLoop(r,
            [f EXCEPT !.uploadedUrls = PushKey(f.uploadedUrls, f.key),
                      !.stored = Append(f.stored, f.key), !.i = f.i + 1])
     ELSE /\ runs' = [runs EXCEPT ![r] =
                [f EXCEPT !.log = Append(f.log, Req("put", f.i, f.contentType, f.key))]]
          /\ UNCHANGED <<status, processingStatus, audioChunks>>
  /\ UNCHANGED <<executionArn, pollingInterval, pollVars, uploadFrame>>

\* uploadChunks resumes with chunk i's PUT response (336-347), then loops.
PutResponse(r, resp) ==
  LET f == [runs[r] EXCEPT !.resolved = @ + 1, !.last = resp.kind] IN
  /\ f.pc = "put"
  /\ CASE resp.kind = "reject" ->
            /\ ProcessAudioCatch(r, f, Err("NetworkError", 0, 0))
            /\ UNCHANGED audioChunks
       [] resp.kind = "http" ->
            /\ ProcessAudioCatch(r, f, Err("ChunkUploadError", f.i + 1, resp.code))
            /\ UNCHANGED audioChunks
       [] OTHER ->
            UploadChunksLoop(r,
              [f EXCEPT !.uploadedUrls = PushKey(f.uploadedUrls, f.key),
                        !.stored = Append(f.stored, f.key),
                        !.i = f.i + 1])
  /\ UNCHANGED <<executionArn, pollingInterval, pollVars, uploadFrame>>

\* ------------------------------------------------------- fetchRecordings
\* Mutant of SortDesc: the comparator is dateA - dateB (ascending).
SortAscending(S) ==
  [j \in 1..Cardinality(S) |-> CHOOSE x \in S : Cardinality({y \in S : y < x}) = j - 1]

\* data.sort(...) of the backend's recordings; a recording is identified by
\* its rank in date + start_time, so descending order is descending id.
RECURSIVE SortDesc(_)
SortDesc(S) ==
  IF S = {} THEN <<>>
  ELSE LET m == CHOOSE x \in S : \A y \in S : y <= x IN <<m>> \o SortDesc(S \ {m})

ListResponses ==
  {[kind |-> "ok", code |-> 200]} \cup {[kind |-> "http", code |-> c] : c \in HttpErr}

\* fetchRecordings up to its await (240-242): setStatus and the GET.
fetchRecordings ==
  /\ status' = Put(status, Msg("listing"))
  /\ listInflight' = listInflight + 1

\* fetchRecordings resumes with the list response (243-258).
FetchRecordingsResponse(resp) ==
  /\ listInflight > Len(served)
  /\ listInflight' = listInflight - 1
  /\ CASE resp.kind = "ok" ->
            /\ recordings' = Put(recordings, SortDesc(items))
            /\ status' = Put(status, Msg(""))
       [] resp.kind = "http" ->
            /\ status' = Put(status, [kind |-> "listFailed", err |-> "ListError",
                                      n1 |-> resp.code, n2 |-> 0])
            /\ UNCHANGED recordings
       [] OTHER ->
            /\ status' = Put(status, [kind |-> "listFailed", err |-> "NetworkError",
                                      n1 |-> 0, n2 |-> 0])
            /\ UNCHANGED recordings
  /\ UNCHANGED <<mounted, isRecording, processingStatus, executionArn,
                 pollingInterval, isEditingBeforeSave, resultFields, audioChunks,
                 effectDep, mediaRecorder, recorders, runs, pollVars, items, selectedRecording, lastSelected, store>>

\* ------------------------------------------- history: the Status Poller
\* poller[e] follows the Status Poller's states for execution e as the events
\* happen: "none"; "fresh" (Polling, no tick yet); "polling" (Polling, ticked);
\* "completed"; "failed"; and Cancelled, as "cancelledFresh" (cancelled before
\* any tick), "replacedUnticked" (a newer poll was started before any tick) or
\* "cancelled".  It is written by the events only and read by no action.
Cancelled(t) == poller[t] \in {"cancelledFresh", "replacedUnticked", "cancelled"}
Terminal(t) == Cancelled(t) \/ poller[t] \in {"completed", "failed"}

\* A new recording session starts: the polls it finds in Polling.
PollsHalted == halted' = halted \cup {t \in Runs : poller[t] \in {"fresh", "polling"}}

\* A new recording session starts, or the component unmounts.
PollsCancelled ==
  poller' = [t \in Runs |->
               CASE poller[t] = "fresh" -> "cancelledFresh"
                 [] poller[t] = "polling" -> "cancelled"
                 [] OTHER -> poller[t]]

\* A poll for execution e starts.
PollStarted(e) ==
  poller' = [t \in Runs |->
               CASE t = e -> "fresh"
                 [] poller[t] \in {"fresh", "cancelledFresh"} -> "replacedUnticked"
                 [] poller[t] = "polling" -> "cancelled"
                 [] OTHER -> poller[t]]

\* Timer t issues a status request.
PollTicked(t) ==
  poller' = [poller EXCEPT ![t] =
               CASE @ = "fresh" -> "polling"
                 [] @ = "cancelledFresh" -> "cancelled"
                 [] OTHER -> @]

\* A response of timer t reports a terminal status.
PollEnded(t, how) ==
  poller' = [poller EXCEPT ![t] = IF @ \in {"fresh", "polling"} THEN how ELSE @]

\* ------------------------------------------------------------ startPolling
\* Mutant of startPolling: the interval is never created.
startPollingNoInterval(arn) ==
  /\ timers' = timers
  /\ pollingInterval' = Put(pollingInterval, arn)
  /\ PollStarted(arn)

\* startPolling(executionArn) (724-798): setInterval and setPollingInterval.
\* The handle of the timer that polls execution e is e.
startPolling(arn) ==
  /\ timers' = timers \cup {arn}
  /\ pollingInterval' = Put(pollingInterval, arn)
  /\ PollStarted(arn)

\* The responses of POST /koenoto/process-audio.  An "ok" body may hold an
\* executionArn, a title and the rest of the result fields (transcript,
\* summary, keywords: present together); an "http" body is JSON with an error
\* field ("error"), JSON without one ("noerror") or not JSON ("notjson").
PostResponses ==
  {[kind |-> "reject", code |-> 0, body |-> "", arn |-> FALSE, title |-> FALSE, rest |-> FALSE]}
  \cup {[kind |-> "http", code |-> c, body |-> b, arn |-> FALSE, title |-> FALSE, rest |-> FALSE] :
          c \in HttpErr, b \in {"error", "noerror", "notjson"}}
  \cup {[kind |-> "ok", code |-> 200, body |-> "notjson", arn |-> FALSE, title |-> FALSE, rest |-> FALSE]}
  \cup {[kind |-> "ok", code |-> 200, body |-> "json", arn |-> a, title |-> t, rest |-> x] :
          a \in BOOLEAN, t \in BOOLEAN, x \in BOOLEAN}

\* Mutant of ProcessAudioResponse: the immediate-result branch leaves out
\* setIsEditingBeforeSave(true).
ProcessAudioResponseNoEdit(r, resp) ==
  LET f == [runs[r] EXCEPT !.resolved = @ + 1, !.last = resp.kind]
      done == [f EXCEPT !.pc = "done", !.chunkKeys = <<>>]
  IN
  /\ f.pc = "post"
  /\ CASE resp.kind = "reject" ->
            /\ ProcessAudioCatch(r, f, Err("NetworkError", 0, 0))
            /\ UNCHANGED <<executionArn, pollingInterval, pollVars, isEditingBeforeSave,
                           resultFields, listInflight>>
       [] resp.body = "notjson" ->
            /\ ProcessAudioCatch(r, f, Err("SyntaxError", 0, 0))
            /\ UNCHANGED <<executionArn, pollingInterval, pollVars, isEditingBeforeSave,
                           resultFields, listInflight>>
       [] resp.kind = "http" ->
            /\ ProcessAudioCatch(r, f, Err("ProcessingStartError", resp.code,
                                           IF resp.body = "error" THEN 1 ELSE 0))
            /\ UNCHANGED <<executionArn, pollingInterval, pollVars, isEditingBeforeSave,
                           resultFields, listInflight>>
       [] resp.arn ->
            /\ executionArn' = Put(executionArn, r)
            /\ startPolling(r)
            /\ backend' = [backend EXCEPT ![r] = "running"]
            /\ status' = Put(status, Msg(""))
            /\ processingStatus' = Put(processingStatus, "processing")
            /\ runs' = [runs EXCEPT ![r] = done]
            /\ UNCHANGED <<inflight, halted, isEditingBeforeSave, resultFields,
                           listInflight>>
       [] resp.title ->
            /\ listInflight < MaxList
            /\ title' = Put(title, "immediate")
            /\ transcript' = Put(transcript, IF resp.rest THEN "immediate" ELSE "")
            /\ summary' = Put(summary, IF resp.rest THEN "immediate" ELSE "")
            /\ keywords' = Put(keywords, IF resp.rest THEN <<"immediate">> ELSE <<>>)
            /\ processingStatus' = Put(processingStatus, "null")
            /\ fetchRecordings
            /\ runs' = [runs EXCEPT ![r] = done]
            /\ UNCHANGED <<executionArn, pollingInterval, pollVars, isEditingBeforeSave>>
       [] OTHER ->
            /\ ProcessAudioCatch(r, f, Err("UnexpectedResponseShape", 0, 0))
            /\ UNCHANGED <<executionArn, pollingInterval, pollVars, isEditingBeforeSave,
                           resultFields, listInflight>>
  /\ UNCHANGED <<mounted, isRecording, audioChunks, recordings, effectDep,
                 mediaRecorder, recorders, items, selectedRecording, lastSelected, store>>

\* processAudio resumes with the start-processing response (422-469).
ProcessAudioResponse(r, resp) ==
  LET f == [runs[r] EXCEPT !.resolved = @ + 1, !.last = resp.kind]
      done == [f EXCEPT !.pc = "done", !.chunkKeys = <<>>]
  IN
  /\ f.pc = "post"
  /\ CASE resp.kind = "reject" ->
            /\ ProcessAudioCatch(r, f, Err("NetworkError", 0, 0))
            /\ UNCHANGED <<executionArn, pollingInterval, pollVars, isEditingBeforeSave,
                           resultFields, listInflight>>
       [] resp.body = "notjson" ->
            /\ ProcessAudioCatch(r, f, Err("SyntaxError", 0, 0))
            /\ UNCHANGED <<executionArn, pollingInterval, pollVars, isEditingBeforeSave,
                           resultFields, listInflight>>
       [] resp.kind = "http" ->
            /\ ProcessAudioCatch(r, f, Err("ProcessingStartError", resp.code,
                                           IF resp.body = "error" THEN 1 ELSE 0))
            /\ UNCHANGED <<executionArn, pollingInterval, pollVars, isEditingBeforeSave,
                           resultFields, listInflight>>
       [] resp.arn ->
            /\ executionArn' = Put(executionArn, r)
            /\ startPolling(r)
            /\ backend' = [backend EXCEPT ![r] = "running"]
            /\ status' = Put(status, Msg(""))
            /\ processingStatus' = Put(processingStatus, "processing")
            /\ runs' = [runs EXCEPT ![r] = done]
            /\ UNCHANGED <<inflight, halted, isEditingBeforeSave, resultFields,
                           listInflight>>
       [] resp.title ->
            /\ listInflight < MaxList
            /\ title' = Put(title, "immediate")
            /\ transcript' = Put(transcript, IF resp.rest THEN "immediate" ELSE "")
            /\ summary' = Put(summary, IF resp.rest THEN "immediate" ELSE "")
            /\ keywords' = Put(keywords, IF resp.rest THEN <<"immediate">> ELSE <<>>)
            /\ processingStatus' = Put(processingStatus, "null")
            /\ isEditingBeforeSave' = Put(isEditingBeforeSave, TRUE)
            /\ fetchRecordings
            /\ runs' = [runs EXCEPT ![r] = done]
            /\ UNCHANGED <<executionArn, pollingInterval, pollVars>>
       [] OTHER ->
            /\ ProcessAudioCatch(r, f, Err("UnexpectedResponseShape", 0, 0))
            /\ UNCHANGED <<executionArn, pollingInterval, pollVars, isEditingBeforeSave,
                           resultFields, listInflight>>
  /\ UNCHANGED <<mounted, isRecording, audioChunks, recordings, effectDep,
                 mediaRecorder, recorders, items, selectedRecording, lastSelected, store>>

\* ------------------------------------------------------ the interval tick
\* The workflow of execution e ends at the backend.
WorkflowEnds(e, outcome) ==
  /\ backend[e] = "running"
  /\ backend' = [backend EXCEPT ![e] = outcome]
  /\ UNCHANGED <<mounted, react, effectDep, mediaRecorder, recorders, runs,
                 timers, inflight, poller, halted, items, selectedRecording, lastSelected, store, listInflight>>

\* Mutant of Tick: the interval fires whether or not it has been cleared.
TickOfClearedTimer(t) ==
  /\ backend[t] # "none"
  /\ inflight[t] < MaxInflight
  /\ inflight' = [inflight EXCEPT ![t] = @ + 1]
  /\ PollTicked(t)
  /\ UNCHANGED <<halted, mounted, react, effectDep, mediaRecorder, recorders, runs,
                 timers, backend, items, selectedRecording, lastSelected, store, listInflight>>

\* The interval callback fires (725-727): the status request is issued.
Tick(t) ==
  /\ t \in timers
  /\ inflight[t] < MaxInflight
  /\ inflight' = [inflight EXCEPT ![t] = @ + 1]
  /\ PollTicked(t)
  /\ UNCHANGED <<halted, mounted, react, effectDep, mediaRecorder, recorders, runs,
                 timers, backend, items, selectedRecording, lastSelected, store, listInflight>>

\* The interval callback fires (725-727) with up to MaxOverlap requests of
\* the timer outstanding: setInterval does not wait for the async callback.
TickOverlapping(t) ==
  /\ t \in timers
  /\ inflight[t] < MaxOverlap
  /\ inflight' = [inflight EXCEPT ![t] = @ + 1]
  /\ PollTicked(t)
  /\ UNCHANGED <<halted, mounted, react, effectDep, mediaRecorder, recorders, runs,
                 timers, backend, items, selectedRecording, lastSelected, store, listInflight>>

\* The result fields an object carries: the title, and the rest (transcript,
\* summary, keywords: present together); "" is an absent field.
Fields(tag) ==
  {[title |-> "", rest |-> ""], [title |-> tag, rest |-> tag]}
NoFields == [title |-> "", rest |-> ""]

\* data.result of a completed response.  shape "missing": no result (or
\* null); "inline": an object holding the fields (outer); "nestedOk": an
\* object whose .result is a string of JSON that decodes to an object
\* (inner); "nestedNull": that string decodes to null; "nestedBad": that
\* string is not JSON.  audio: the decoded object's audioUrl / audioChunks.
Payloads ==
  {[shape |-> "missing", outer |-> NoFields, inner |-> NoFields, audio |-> "none"],
   [shape |-> "nestedNull", outer |-> NoFields, inner |-> NoFields, audio |-> "none"]}
  \cup {[shape |-> "inline", outer |-> o, inner |-> NoFields, audio |-> a] :
          o \in Fields("outer"), a \in {"none", "url", "chunks"}}
  \cup {[shape |-> "nestedOk", outer |-> o, inner |-> n, audio |-> "none"] :
          o \in Fields("outer"), n \in Fields("inner")}
  \cup {[shape |-> "nestedBad", outer |-> o, inner |-> NoFields, audio |-> "none"] :
          o \in Fields("outer")}

\* The responses of GET /koenoto/process-status.  "error": the fetch rejects
\* or the body is not JSON; "progress": any status other than completed and
\* failed (running, or none at all as in a gateway error body).  pct is
\* data.percentComplete (-1: the field is absent); message and error tell
\* whether data.message / data.error are present.
StatusResponses(e) ==
  {[kind |-> "error", payload |-> CHOOSE p \in Payloads : p.shape = "missing",
    message |-> FALSE, pct |-> 0, error |-> FALSE]}
  \cup {[kind |-> "progress", payload |-> CHOOSE p \in Payloads : p.shape = "missing",
         message |-> m, pct |-> c, error |-> FALSE] :
          m \in BOOLEAN, c \in {-1, 0, 50}}
  \cup (IF backend[e] = "completed"
        THEN {[kind |-> "completed", payload |-> p, message |-> FALSE, pct |-> 0,
               error |-> FALSE] : p \in Payloads}
        ELSE {})
  \cup (IF backend[e] = "failed"
        THEN {[kind |-> "failed", payload |-> CHOOSE p \in Payloads : p.shape = "missing",
               message |-> FALSE, pct |-> 0, error |-> x] : x \in BOOLEAN}
        ELSE {})

\* Mutant of ResultData: the nested string is never decoded.
ResultDataNoDecode(p) == IF p.shape = "missing" THEN "null" ELSE "outer"

\* let resultData = data.result; if (resultData && typeof resultData.result
\* === 'string') try { resultData = JSON.parse(resultData.result) } catch {}
\* (738-746).  "null" stands for null / undefined.
ResultData(p) ==
  CASE p.shape = "missing" -> "null"
    [] p.shape = "nestedNull" -> "null"
    [] p.shape = "nestedOk" -> "inner"
    [] OTHER -> "outer"
ResultFieldsOf(p) == IF ResultData(p) = "inner" THEN p.inner ELSE p.outer

\* resultData.title || "無題"
TitleOr(v) == IF v = "" THEN "untitled" ELSE v
KeywordsOr(v) == IF v = "" THEN <<>> ELSE <<v>>

\* Mutant of StopPolling: clearInterval(interval) is left out.
StopPollingKeepsTimer(t) ==
  /\ timers' = timers
  /\ pollingInterval' = Put(pollingInterval, 0)
  /\ executionArn' = Put(executionArn, 0)

\* clearInterval(interval); setPollingInterval(null); setExecutionArn(null)
StopPolling(t) ==
  /\ timers' = timers \ {t}
  /\ pollingInterval' = Put(pollingInterval, 0)
  /\ executionArn' = Put(executionArn, 0)

\* The tick's catch (789-793).
TickCatch ==
  /\ status' = Put(status, Msg("statusFetchFailed"))
  /\ processingStatus' = Put(processingStatus, "null")

\* `処理中... (${data.percentComplete}%)`, data.message || "処理中..."
ProgressText(resp) ==
  IF resp.pct > 0 THEN "percent"
  ELSE IF resp.message THEN "serverMessage" ELSE "defaultProgress"

\* Mutant of TickResponse: the catch gives up and stops the poll.
TickResponseGivesUp(t, resp) ==
  /\ inflight[t] > 0
  /\ inflight' = [inflight EXCEPT ![t] = @ - 1]
  /\ CASE resp.kind = "error" ->
            /\ TickCatch
            /\ StopPolling(t)
            /\ UNCHANGED <<isEditingBeforeSave, resultFields, audioChunks,
                           listInflight, poller>>
       [] resp.kind = "completed" /\ ResultData(resp.payload) = "null" ->
            /\ StopPolling(t)
            /\ PollEnded(t, "completed")
            /\ TickCatch
            /\ UNCHANGED <<isEditingBeforeSave, resultFields, audioChunks, listInflight>>
       [] resp.kind = "completed" /\ ResultData(resp.payload) # "null" ->
            LET d == ResultFieldsOf(resp.payload) IN
            /\ listInflight < MaxList
            /\ StopPolling(t)
            /\ PollEnded(t, "completed")
            /\ title' = Put(title, TitleOr(d.title))
            /\ transcript' = Put(transcript, d.rest)
            /\ summary' = Put(summary, d.rest)
            /\ keywords' = Put(keywords, KeywordsOr(d.rest))
            /\ audioChunks' = IF resp.payload.audio = "chunks"
                              THEN Put(audioChunks, MapChunkUrls(<<"kc">>))
                              ELSE audioChunks
            /\ processingStatus' = Put(processingStatus, "null")
            /\ isEditingBeforeSave' = Put(isEditingBeforeSave, TRUE)
            /\ fetchRecordings
       [] resp.kind = "failed" ->
            /\ StopPolling(t)
            /\ PollEnded(t, "failed")
            /\ status' = Put(status, [kind |-> "pollFailed",
                                      err |-> IF resp.error THEN "serverError" ELSE "unknown",
                                      n1 |-> 0, n2 |-> 0])
            /\ processingStatus' = Put(processingStatus, "null")
            /\ UNCHANGED <<isEditingBeforeSave, resultFields, audioChunks, listInflight>>
       [] OTHER ->
            /\ processingStatus' = Put(processingStatus, ProgressText(resp))
            /\ UNCHANGED <<status, timers, pollingInterval, executionArn,
                           isEditingBeforeSave, resultFields, audioChunks, listInflight,
                           poller>>
  /\ UNCHANGED <<mounted, isRecording, recordings, effectDep, mediaRecorder,
                 recorders, runs, backend, halted, items, selectedRecording, lastSelected, store>>

\* Mutant of TickResponse: the result is read before the timer is cleared, so
\* a completed response without a result raises with the timer still live.
TickResponseReadsFirst(t, resp) ==
  /\ inflight[t] > 0
  /\ inflight' = [inflight EXCEPT ![t] = @ - 1]
  /\ CASE resp.kind = "error" ->
            /\ TickCatch
            /\ UNCHANGED <<timers, pollingInterval, executionArn, isEditingBeforeSave,
                           resultFields, audioChunks, listInflight, poller>>
       [] resp.kind = "completed" /\ ResultData(resp.payload) = "null" ->
            /\ TickCatch
            /\ UNCHANGED <<timers, pollingInterval, executionArn, poller>>
            /\ UNCHANGED <<isEditingBeforeSave, resultFields, audioChunks, listInflight>>
       [] resp.kind = "completed" /\ ResultData(resp.payload) # "null" ->
            LET d == ResultFieldsOf(resp.payload) IN
            /\ listInflight < MaxList
            /\ StopPolling(t)
            /\ PollEnded(t, "completed")
            /\ title' = Put(title, TitleOr(d.title))
            /\ transcript' = Put(transcript, d.rest)
            /\ summary' = Put(summary, d.rest)
            /\ keywords' = Put(keywords, KeywordsOr(d.rest))
            /\ audioChunks' = IF resp.payload.audio = "chunks"
                              THEN Put(audioChunks, MapChunkUrls(<<"kc">>))
                              ELSE audioChunks
            /\ processingStatus' = Put(processingStatus, "null")
            /\ isEditingBeforeSave' = Put(isEditingBeforeSave, TRUE)
            /\ fetchRecordings
       [] resp.kind = "failed" ->
            /\ StopPolling(t)
            /\ PollEnded(t, "failed")
            /\ status' = Put(status, [kind |-> "pollFailed",
                                      err |-> IF resp.error THEN "serverError" ELSE "unknown",
                                      n1 |-> 0, n2 |-> 0])
            /\ processingStatus' = Put(processingStatus, "null")
            /\ UNCHANGED <<isEditingBeforeSave, resultFields, audioChunks, listInflight>>
       [] OTHER ->
            /\ processingStatus' = Put(processingStatus, ProgressText(resp))
            /\ UNCHANGED <<status, timers, pollingInterval, executionArn,
                           isEditingBeforeSave, resultFields, audioChunks, listInflight,
                           poller>>
  /\ UNCHANGED <<mounted, isRecording, recordings, effectDep, mediaRecorder,
                 recorders, runs, backend, halted, items, selectedRecording, lastSelected, store>>

\* The interval callback resumes with the status response (728-793).
TickResponse(t, resp) ==
  /\ inflight[t] > 0
  /\ inflight' = [inflight EXCEPT ![t] = @ - 1]
  /\ CASE resp.kind = "error" ->
            /\ TickCatch
            /\ UNCHANGED <<timers, pollingInterval, executionArn, isEditingBeforeSave,
                           resultFields, audioChunks, listInflight, poller>>
       [] resp.kind = "completed" /\ ResultData(resp.payload) = "null" ->
            /\ StopPolling(t)
            /\ PollEnded(t, "completed")
            /\ TickCatch
            /\ UNCHANGED <<isEditingBeforeSave, resultFields, audioChunks, listInflight>>
       [] resp.kind = "completed" /\ ResultData(resp.payload) # "null" ->
            LET d == ResultFieldsOf(resp.payload) IN
            /\ listInflight < MaxList
            /\ StopPolling(t)
            /\ PollEnded(t, "completed")
            /\ title' = Put(title, TitleOr(d.title))
            /\ transcript' = Put(transcript, d.rest)
            /\ summary' = Put(summary, d.rest)
            /\ keywords' = Put(keywords, KeywordsOr(d.rest))
            /\ audioChunks' = IF resp.payload.audio = "chunks"
                              THEN Put(audioChunks, MapChunkUrls(<<"kc">>))
                              ELSE audioChunks
            /\ processingStatus' = Put(processingStatus, "null")
            /\ isEditingBeforeSave' = Put(isEditingBeforeSave, TRUE)
            /\ fetchRecordings
       [] resp.kind = "failed" ->
            /\ StopPolling(t)
            /\ PollEnded(t, "failed")
            /\ status' = Put(status, [kind |-> "pollFailed",
                                      err |-> IF resp.error THEN "serverError" ELSE "unknown",
                                      n1 |-> 0, n2 |-> 0])
            /\ processingStatus' = Put(processingStatus, "null")
            /\ UNCHANGED <<isEditingBeforeSave, resultFields, audioChunks, listInflight>>
       [] OTHER ->
            /\ processingStatus' = Put(processingStatus, ProgressText(resp))
            /\ UNCHANGED <<status, timers, pollingInterval, executionArn,
                           isEditingBeforeSave, resultFields, audioChunks, listInflight,
                           poller>>
  /\ UNCHANGED <<mounted, isRecording, recordings, effectDep, mediaRecorder,
                 recorders, runs, backend, halted, items, selectedRecording, lastSelected, store>>

\* ------------------------------------------- the pollingInterval effect
\* The cleanup of useEffect(() => () => { if (pollingInterval)
\* clearInterval(pollingInterval) }, [pollingInterval]) (801-807) clears the
\* handle its own render saw.
EffectCleanup == timers' = timers \ {effectDep}

\* React commits a render in which pollingInterval changed: the previous
\* effect's cleanup runs and the effect is mounted again.
Render ==
  /\ mounted
  /\ pollingInterval # effectDep
  /\ EffectCleanup
  /\ effectDep' = pollingInterval
  /\ UNCHANGED <<mounted, react, mediaRecorder, recorders, runs, inflight,
                 backend, poller, halted, items, selectedRecording, lastSelected, store, listInflight>>

\* The state is discarded: the useState values read as their initial ones
\* (185-229).
StateDiscarded ==
  /\ isRecording' = FALSE
  /\ status' = Msg("")
  /\ processingStatus' = "null"
  /\ executionArn' = 0
  /\ pollingInterval' = 0
  /\ isEditingBeforeSave' = FALSE
  /\ title' = ""
  /\ transcript' = ""
  /\ summary' = ""
  /\ keywords' = <<>>
  /\ audioChunks' = <<>>
  /\ recordings' = <<>>
  /\ selectedRecording' = 0
  /\ lastSelected' = 0
  /\ isLoading' = FALSE

\* The component unmounts: the mounted effect's cleanup runs, and the
\* component's state is discarded (it reads as the initial values, and the
\* setters no longer change it).
Unmount ==
  /\ mounted
  /\ mounted' = FALSE
  /\ EffectCleanup
  /\ StateDiscarded
  /\ effectDep' = 0
  /\ PollsCancelled
  /\ UNCHANGED <<halted, mediaRecorder, recorders, runs, inflight, backend, items, pending, served,
                 listInflight>>

\* --------------------------------------------------------------- recording
\* resetState (526-541): it clears neither the interval nor pollingInterval.
resetState ==
  /\ selectedRecording' = Put(selectedRecording, 0)
  /\ lastSelected' = 0
  /\ title' = Put(title, "")
  /\ transcript' = Put(transcript, "")
  /\ summary' = Put(summary, "")
  /\ keywords' = Put(keywords, <<>>)
  /\ isEditingBeforeSave' = Put(isEditingBeforeSave, FALSE)
  /\ audioChunks' = Put(audioChunks, <<>>)
  /\ processingStatus' = Put(processingStatus, "null")
  /\ executionArn' = Put(executionArn, 0)

\* The session the next startRecording opens: the lowest unused one.
NextSession(s) == recorders[s] = "unused" /\ \A q \in Runs : q < s => recorders[q] # "unused"

\* startRecording up to its await (543-557): resetState, getUserMedia.
startRecording(s) ==
  /\ NextSession(s)
  /\ resetState
  /\ recorders' = [recorders EXCEPT ![s] = "pending"]
  /\ PollsCancelled
  /\ PollsHalted
  /\ UNCHANGED <<mounted, isRecording, status, pollingInterval, recordings,
                 effectDep, mediaRecorder, runs, timers, inflight, backend, items, store,
                 listInflight>>

\* startRecording resumes with getUserMedia's outcome (559-614).  "denied":
\* the promise rejects; "ctorThrows": new MediaRecorder throws, after
\* setIsRecording(true); "ok": the recorder is created and started.
GetUserMediaResolves(s, outcome) ==
  /\ recorders[s] = "pending"
  /\ CASE outcome = "denied" ->
            /\ status' = Put(status, Msg("startFailed"))
            /\ recorders' = [recorders EXCEPT ![s] = "failed"]
            /\ UNCHANGED <<isRecording, mediaRecorder>>
       [] outcome = "ctorThrows" ->
            /\ isRecording' = Put(isRecording, TRUE)
            /\ status' = Put(status, Msg("startFailed"))
            /\ recorders' = [recorders EXCEPT ![s] = "failed"]
            /\ UNCHANGED mediaRecorder
       [] OTHER ->
            /\ isRecording' = Put(isRecording, TRUE)
            /\ status' = Put(status, Msg("recording"))
            /\ mediaRecorder' = s
            /\ recorders' = [recorders EXCEPT ![s] = "recording"]
  /\ UNCHANGED <<mounted, processingStatus, executionArn, pollingInterval,
                 isEditingBeforeSave, resultFields, audioChunks, recordings,
                 effectDep, runs, pollVars, items, selectedRecording, lastSelected, store, listInflight>>

\* stopRecording (617-647): returns when there is no active recorder.
stopRecording ==
  /\ IF mediaRecorder = 0 \/ recorders[mediaRecorder] # "recording"
     THEN UNCHANGED <<recorders, isRecording, status>>
     ELSE /\ recorders' = [recorders EXCEPT ![mediaRecorder] = "stopping"]
          /\ isRecording' = Put(isRecording, FALSE)
          /\ status' = Put(status, Msg("stopped"))
  /\ UNCHANGED <<mounted, processingStatus, executionArn, pollingInterval,
                 isEditingBeforeSave, resultFields, audioChunks, recordings,
                 effectDep, mediaRecorder, runs, pollVars, items, selectedRecording, lastSelected, store, listInflight>>

\* handleRecordButtonClick (649-655)
handleRecordButtonClick ==
  /\ mounted
  /\ IF isRecording THEN stopRecording ELSE \E s \in Runs : startRecording(s)

\* recorder.onstop (582-593): the blob is built and processAudio is called.
RecorderOnStop(r, size) ==
  /\ recorders[r] = "stopping"
  /\ recorders' = [recorders EXCEPT ![r] = "inactive"]
  /\ processAudio(r, Blob("audio/webm", size))
  /\ UNCHANGED <<executionArn, pollingInterval, pollVars, mounted, isRecording,
                 isEditingBeforeSave, resultFields, recordings, effectDep,
                 mediaRecorder, items, selectedRecording, lastSelected, store, listInflight>>

\* ------------------------------------------------------ the Recording Store
\* The ids of recordings: the backend's, and those uuid() makes.
Ids == 1..(MaxItems + MaxSaves)

\* What the Recording Store's operations leave alone.
storeFrame == <<mounted, isRecording, pollingInterval, effectDep, mediaRecorder,
                recorders, runs, pollVars>>

RemoveAt(seq, k) == SubSeq(seq, 1, k - 1) \o SubSeq(seq, k + 1, Len(seq))
Range(seq) == {seq[j] : j \in 1..Len(seq)}
Max(S) == CHOOSE x \in S : \A y \in S : y <= x

\* uuid() (940): an id no recording in sight has.  A recording saved now is
\* the latest by date + start_time, so it has the highest rank.
NewId ==
  1 + Max({0} \cup items \cup {selectedRecording} \cup Range(recordings)
          \cup {pending[j].id : j \in 1..Len(pending)}
          \cup UNION {served[j] : j \in 1..Len(served)})

\* The backend answers a list request (GET /koenoto): the response, still to
\* arrive, holds the recordings of that moment.
ListServed ==
  /\ Len(served) < listInflight
  /\ served' = Append(served, items)
  /\ UNCHANGED <<storeFrame, status, processingStatus, executionArn,
                 isEditingBeforeSave, resultFields, audioChunks, recordings, items,
                 listInflight, selectedRecording, lastSelected, isLoading, pending>>

\* fetchRecordings resumes with a successful response sent earlier (243-254).
FetchRecordingsServed(k) ==
  /\ k \in 1..Len(served)
  /\ listInflight' = listInflight - 1
  /\ served' = RemoveAt(served, k)
  /\ recordings' = Put(recordings, SortDesc(served[k]))
  /\ status' = Put(status, Msg(""))
  /\ UNCHANGED <<storeFrame, processingStatus, executionArn, isEditingBeforeSave,
                 resultFields, audioChunks, items, selectedRecording, lastSelected, isLoading,
                 pending>>

\* The responses of POST /koenoto/save-recording and DELETE /koenoto/{id}.
\* kind "reject": fetch rejects; "http": a non-success status; "ok": a success
\* status, with a body that is JSON ("json") or not ("notjson").
SaveResponses ==
  {[kind |-> "reject", code |-> 0, body |-> ""]}
  \cup {[kind |-> "http", code |-> c, body |-> ""] : c \in HttpErr}
  \cup {[kind |-> "ok", code |-> 200, body |-> b] : b \in {"json", "notjson"}}
DeleteResponses ==
  {[kind |-> "reject", code |-> 0], [kind |-> "ok", code |-> 200]}
  \cup {[kind |-> "http", code |-> c] : c \in HttpErr}

\* The save button (1143-1200: shown while isEditingBeforeSave, disabled while
\* isLoading) is clicked: saveRecording up to its await (933-963).
saveRecording ==
  /\ mounted
  /\ isEditingBeforeSave
  /\ ~isLoading
  /\ Len(pending) < MaxPending
  /\ NewId \in Ids
  /\ isLoading' = TRUE
  /\ status' = Msg("saving")
  /\ pending' = Append(pending, [op |-> "save", id |-> NewId])
  /\ UNCHANGED <<storeFrame, processingStatus, executionArn, isEditingBeforeSave,
                 resultFields, audioChunks, recordings, items, listInflight,
                 selectedRecording, lastSelected, served>>

\* Mutant of SaveResponse: the saved recording is put in the list locally and
\* the list is not fetched again.
SaveResponsePatches(k, resp) ==
  /\ k \in 1..Len(pending)
  /\ pending[k].op = "save"
  /\ pending' = RemoveAt(pending, k)
  /\ isLoading' = Put(isLoading, FALSE)
  /\ IF resp.kind = "ok" /\ resp.body = "json"
     THEN /\ items' = items \cup {pending[k].id}
          /\ isEditingBeforeSave' = Put(isEditingBeforeSave, FALSE)
          /\ selectedRecording' = Put(selectedRecording, pending[k].id)
          /\ lastSelected' = 0
          /\ recordings' = Put(recordings, <<pending[k].id>> \o recordings)
          /\ status' = Put(status, Msg("saved"))
          /\ UNCHANGED listInflight
     ELSE /\ items' = IF resp.kind = "ok" THEN items \cup {pending[k].id} ELSE items
          /\ status' = Put(status, [kind |-> "saveFailed",
                                    err |-> CASE resp.kind = "reject" -> "NetworkError"
                                              [] resp.kind = "http" -> "SaveError"
                                              [] OTHER -> "SyntaxError",
                                    n1 |-> 0, n2 |-> 0])
          /\ UNCHANGED <<isEditingBeforeSave, selectedRecording, lastSelected, listInflight, recordings>>
  /\ UNCHANGED <<storeFrame, processingStatus, executionArn, resultFields,
                 audioChunks, served>>

\* saveRecording resumes with the response (965-988).  The backend holds the
\* recording once it answers with a success status.
SaveResponse(k, resp) ==
  /\ k \in 1..Len(pending)
  /\ pending[k].op = "save"
  /\ pending' = RemoveAt(pending, k)
  /\ isLoading' = Put(isLoading, FALSE)
  /\ IF resp.kind = "ok" /\ resp.body = "json"
     THEN /\ listInflight < MaxList
          /\ items' = items \cup {pending[k].id}
          /\ isEditingBeforeSave' = Put(isEditingBeforeSave, FALSE)
          /\ selectedRecording' = Put(selectedRecording, pending[k].id)
          /\ lastSelected' = 0
          /\ listInflight' = listInflight + 1
          /\ status' = Put(status, Msg("saved"))
     ELSE /\ items' = IF resp.kind = "ok" THEN items \cup {pending[k].id} ELSE items
          /\ status' = Put(status, [kind |-> "saveFailed",
                                    err |-> CASE resp.kind = "reject" -> "NetworkError"
                                              [] resp.kind = "http" -> "SaveError"
                                              [] OTHER -> "SyntaxError",
                                    n1 |-> 0, n2 |-> 0])
          /\ UNCHANGED <<isEditingBeforeSave, selectedRecording, lastSelected, listInflight>>
  /\ UNCHANGED <<storeFrame, processingStatus, executionArn, resultFields,
                 audioChunks, recordings, served>>

\* The delete button (1258-1268: shown when a recording is selected and
\* nothing is being edited) is clicked: handleDelete up to its await (679-686).
handleDelete ==
  /\ mounted
  /\ ~isEditingBeforeSave
  /\ selectedRecording # 0
  /\ Len(pending) < MaxPending
  /\ status' = Msg("deleting")
  /\ pending' = Append(pending, [op |-> "delete", id |-> selectedRecording])
  /\ UNCHANGED <<storeFrame, processingStatus, executionArn, isEditingBeforeSave,
                 resultFields, audioChunks, recordings, items, listInflight,
                 selectedRecording, lastSelected, isLoading, served>>

\* Mutant of DeleteResponse: resetState runs before the response is looked at.
DeleteResponseResets(k, resp) ==
  /\ k \in 1..Len(pending)
  /\ pending[k].op = "delete"
  /\ pending' = RemoveAt(pending, k)
  /\ IF resp.kind = "ok"
     THEN /\ listInflight < MaxList
          /\ items' = items \ {pending[k].id}
          /\ resetState
          /\ listInflight' = listInflight + 1
          /\ status' = Put(status, Msg("deleted"))
     ELSE /\ status' = Put(status, [kind |-> "deleteFailed",
                                    err |-> IF resp.kind = "http" THEN "DeleteError"
                                            ELSE "NetworkError",
                                    n1 |-> resp.code, n2 |-> 0])
          /\ resetState
          /\ UNCHANGED <<items, listInflight>>
  /\ UNCHANGED <<storeFrame, recordings, isLoading, served>>

\* handleDelete resumes with the response (688-700).
DeleteResponse(k, resp) ==
  /\ k \in 1..Len(pending)
  /\ pending[k].op = "delete"
  /\ pending' = RemoveAt(pending, k)
  /\ IF resp.kind = "ok"
     THEN /\ listInflight < MaxList
          /\ items' = items \ {pending[k].id}
          /\ resetState
          /\ listInflight' = listInflight + 1
          /\ status' = Put(status, Msg("deleted"))
     ELSE /\ status' = Put(status, [kind |-> "deleteFailed",
                                    err |-> IF resp.kind = "http" THEN "DeleteError"
                                            ELSE "NetworkError",
                                    n1 |-> resp.code, n2 |-> 0])
          /\ UNCHANGED <<items, selectedRecording, lastSelected, resultFields, isEditingBeforeSave,
                         audioChunks, processingStatus, executionArn, listInflight>>
  /\ UNCHANGED <<storeFrame, recordings, isLoading, served>>

\* A recording of the list is clicked: handleSelectRecording (657-669) and
\* fetchRecording up to its await (849-852).
handleSelectRecording(id) ==
  /\ mounted
  /\ id \in Range(recordings)
  /\ Len(pending) < MaxPending
  /\ selectedRecording' = id
  /\ lastSelected' = id
  /\ transcript' = ""
  /\ summary' = ""
  /\ keywords' = <<>>
  /\ isEditingBeforeSave' = FALSE
  /\ title' = ""
  /\ status' = Msg("fetching")
  /\ pending' = Append(pending, [op |-> "get", id |-> id])
  /\ UNCHANGED <<storeFrame, processingStatus, executionArn, audioChunks,
                 recordings, items, listInflight, isLoading, served>>

\* The responses of GET /koenoto/{id}: "ok" holds the recording, with its
\* fields and audioChunks present or not.
RecordingResponses ==
  {[kind |-> "reject", code |-> 0, full |-> FALSE]}
  \cup {[kind |-> "http", code |-> c, full |-> FALSE] : c \in HttpErr}
  \cup {[kind |-> "ok", code |-> 200, full |-> x] : x \in BOOLEAN}

\* fetchRecording resumes with the response (854-889).
FetchRecordingResponse(k, resp) ==
  /\ k \in 1..Len(pending)
  /\ pending[k].op = "get"
  /\ pending' = RemoveAt(pending, k)
  /\ IF resp.kind = "ok"
     THEN /\ selectedRecording' = Put(selectedRecording, pending[k].id)
          /\ UNCHANGED lastSelected
          /\ audioChunks' = IF resp.full THEN Put(audioChunks, MapChunkUrls(<<"kc">>))
                            ELSE audioChunks
          /\ transcript' = Put(transcript, IF resp.full THEN "stored" ELSE "")
          /\ summary' = Put(summary, IF resp.full THEN "stored" ELSE "")
          /\ keywords' = Put(keywords, IF resp.full THEN <<"stored">> ELSE <<>>)
          /\ title' = Put(title, IF resp.full THEN "stored" ELSE "")
          /\ status' = Put(status, Msg(""))
     ELSE /\ status' = Put(status, [kind |-> "fetchFailed",
                                    err |-> IF resp.kind = "http" THEN "HttpError"
                                            ELSE "NetworkError",
                                    n1 |-> resp.code, n2 |-> 0])
          /\ UNCHANGED <<selectedRecording, lastSelected, audioChunks, resultFields>>
  /\ UNCHANGED <<storeFrame, processingStatus, executionArn, isEditingBeforeSave,
                 recordings, items, listInflight, isLoading, served>>


\* ------------------------------------------------------ the specification
\* The state once the component has mounted: both mount effects (261-277,
\* 809-811) have called fetchRecordings.
Mounted ==
  /\ mounted = TRUE
  /\ isRecording = FALSE
  /\ status = Msg("listing")
  /\ processingStatus = "null"
  /\ executionArn = 0
  /\ pollingInterval = 0
  /\ isEditingBeforeSave = FALSE
  /\ title = ""
  /\ transcript = ""
  /\ summary = ""
  /\ keywords = <<>>
  /\ audioChunks = <<>>
  /\ recordings = <<>>
  /\ effectDep = 0
  /\ items = 1..MaxItems
  /\ listInflight = 2
  /\ selectedRecording = 0
  /\ lastSelected = 0
  /\ isLoading = FALSE
  /\ pending = <<>>
  /\ served = <<>>

Init ==
  /\ Mounted
  /\ mediaRecorder = 0
  /\ recorders = [r \in Runs |-> "unused"]
  /\ runs = [r \in Runs |-> IdleRun]
  /\ timers = {}
  /\ inflight = [r \in Runs |-> 0]
  /\ backend = [r \in Runs |-> "none"]
  /\ poller = [r \in Runs |-> "none"]
  /\ halted = {}

Next ==
  \/ handleRecordButtonClick
  \/ \E s \in Runs, o \in {"denied", "ctorThrows", "ok"} : GetUserMediaResolves(s, o)
  \/ \E r \in Runs, size \in RecordedSizes : RecorderOnStop(r, size)
  \/ \E r \in Runs, resp \in PipelinePresignResponses : PresignResponse(r, resp)
  \/ \E r \in Runs, resp \in PipelinePutResponses : PutResponse(r, resp)
  \/ \E r \in Runs, resp \in PostResponses : ProcessAudioResponse(r, resp)
  \/ \E e \in Runs, o \in {"completed", "failed"} : WorkflowEnds(e, o)
  \/ \E t \in Runs : Tick(t)
  \/ \E t \in Runs : \E resp \in StatusResponses(t) : TickResponse(t, resp)
  \/ \E resp \in ListResponses : FetchRecordingsResponse(resp)
  \/ Render
  \/ Unmount

Spec == Init /\ [][Next]_vars

\* ------------------------------------- one recording, a blob of any size
\* The pipeline from the moment one recording has been stopped (the state
\* after a click, getUserMedia, and a second click), with the recorded blob
\* drawn from the sizes under, at and over the chunker's threshold.
InitChunker ==
  /\ mounted = TRUE
  /\ isRecording = FALSE
  /\ status = Msg("stopped")
  /\ processingStatus = "null"
  /\ executionArn = 0
  /\ pollingInterval = 0
  /\ isEditingBeforeSave = FALSE
  /\ title = ""
  /\ transcript = ""
  /\ summary = ""
  /\ keywords = <<>>
  /\ audioChunks = <<>>
  /\ recordings = <<>>
  /\ effectDep = 0
  /\ items = 1..MaxItems
  /\ listInflight = 2
  /\ selectedRecording = 0
  /\ lastSelected = 0
  /\ isLoading = FALSE
  /\ pending = <<>>
  /\ served = <<>>
  /\ mediaRecorder = 1
  /\ recorders = [r \in Runs |-> IF r = 1 THEN "stopping" ELSE "unused"]
  /\ runs = [r \in Runs |-> IdleRun]
  /\ timers = {}
  /\ inflight = [r \in Runs |-> 0]
  /\ backend = [r \in Runs |-> "none"]
  /\ poller = [r \in Runs |-> "none"]
  /\ halted = {}

NextChunker ==
  \/ \E r \in Runs, size \in BlobSizes : RecorderOnStop(r, size)
  \/ \E r \in Runs, resp \in PipelinePresignResponses : PresignResponse(r, resp)
  \/ \E r \in Runs, resp \in PipelinePutResponses : PutResponse(r, resp)
  \/ \E r \in Runs, resp \in PostResponses : ProcessAudioResponse(r, resp)
  \/ \E e \in Runs, o \in {"completed", "failed"} : WorkflowEnds(e, o)
  \/ \E t \in Runs : Tick(t)
  \/ \E t \in Runs : \E resp \in StatusResponses(t) : TickResponse(t, resp)
  \/ \E resp \in ListResponses : FetchRecordingsResponse(resp)
  \/ Render

SpecChunker == InitChunker /\ [][NextChunker]_vars

\* --------------------------------------- one stopped recording, N chunks
\* The pipeline after one recording has stopped, with processAudio's chunks
\* drawn from the sequences of at most MaxChunks blobs (createChunks itself
\* only ever yields one) and every response of the uploader drawn.
ChunkSeqs == UNION {[1..n -> {Blob(t, MAX_CHUNK_SIZE) : t \in BlobTypes}] : n \in 0..MaxChunks}

\* processAudio is entered with the frame's chunks.
ProcessAudioCall(r) ==
  /\ runs[r].pc = "call"
  /\ ProcessAudioWith(r, runs[r].chunks)
  /\ UNCHANGED <<executionArn, pollingInterval, pollVars, uploadFrame>>

InitOneRecording ==
  /\ Mounted
  /\ mediaRecorder = 1
  /\ recorders = [r \in Runs |-> IF r = 1 THEN "inactive" ELSE "unused"]
  /\ \E cs \in ChunkSeqs :
       runs = [r \in Runs |-> IF r = 1 THEN [IdleRun EXCEPT !.pc = "call", !.chunks = cs]
                                        ELSE IdleRun]
  /\ timers = {}
  /\ inflight = [r \in Runs |-> 0]
  /\ backend = [r \in Runs |-> "none"]
  /\ poller = [r \in Runs |-> "none"]
  /\ halted = {}

NextOneRecording ==
  \/ \E r \in Runs : ProcessAudioCall(r)
  \/ \E r \in Runs, resp \in PresignResponses : PresignResponse(r, resp)
  \/ \E r \in Runs, resp \in PutResponses : PutResponse(r, resp)
  \/ \E r \in Runs, resp \in PostResponses : ProcessAudioResponse(r, resp)
  \/ \E e \in Runs, o \in {"completed", "failed"} : WorkflowEnds(e, o)
  \/ \E t \in Runs : Tick(t)
  \/ \E t \in Runs : \E resp \in StatusResponses(t) : TickResponse(t, resp)
  \/ \E resp \in ListResponses : FetchRecordingsResponse(resp)
  \/ Render

SpecOneRecording == InitOneRecording /\ [][NextOneRecording]_vars

\* ------------------------------------------ one recording and the store
\* One stopped recording is processed, its result comes with the
\* start-processing response, and the Recording Store's operations are used
\* on it and on the recordings listed, with every response of the store
\* drawn.
InitStore ==
  /\ Mounted
  /\ mediaRecorder = 1
  /\ recorders = [r \in Runs |-> IF r = 1 THEN "inactive" ELSE "unused"]
  /\ runs = [r \in Runs |->
               IF r = 1
               THEN [IdleRun EXCEPT !.pc = "call",
                                    !.chunks = <<Blob("audio/webm", MAX_CHUNK_SIZE)>>]
               ELSE IdleRun]
  /\ timers = {}
  /\ inflight = [r \in Runs |-> 0]
  /\ backend = [r \in Runs |-> "none"]
  /\ poller = [r \in Runs |-> "none"]
  /\ halted = {}

StorePresignResponses ==
  {resp \in PipelinePresignResponses : resp.kind = "ok"}
StorePutResponses == {resp \in PutResponses : resp.kind = "ok"}
StorePostResponses ==
  {resp \in PostResponses : resp.kind = "ok" /\ resp.body = "json" /\ ~resp.arn
                            /\ resp.title /\ resp.rest}

NextStore ==
  \/ \E r \in Runs : ProcessAudioCall(r)
  \/ \E r \in Runs, resp \in StorePresignResponses : PresignResponse(r, resp)
  \/ \E r \in Runs, resp \in StorePutResponses : PutResponse(r, resp)
  \/ \E r \in Runs, resp \in StorePostResponses : ProcessAudioResponse(r, resp)
  \/ saveRecording
  \/ \E k \in 1..MaxPending, resp \in SaveResponses : SaveResponse(k, resp)
  \/ handleDelete
  \/ \E k \in 1..MaxPending, resp \in DeleteResponses : DeleteResponse(k, resp)
  \/ \E id \in Ids : handleSelectRecording(id)
  \/ \E k \in 1..MaxPending, resp \in RecordingResponses : FetchRecordingResponse(k, resp)
  \/ \E resp \in ListResponses : FetchRecordingsResponse(resp)
  \/ ListServed
  \/ \E k \in 1..MaxList : FetchRecordingsServed(k)
  \/ Unmount

SpecStore == InitStore /\ [][NextStore]_vars


\* -------------------------------- the store, every response a success
\* The same operations with every response of the Recording Store a
\* success: saves and deletes that succeed, list and recording requests
\* that resolve successfully, in any order.
NextStoreOk ==
  \/ \E r \in Runs : ProcessAudioCall(r)
  \/ \E r \in Runs, resp \in StorePresignResponses : PresignResponse(r, resp)
  \/ \E r \in Runs, resp \in StorePutResponses : PutResponse(r, resp)
  \/ \E r \in Runs, resp \in StorePostResponses : ProcessAudioResponse(r, resp)
  \/ saveRecording
  \/ \E k \in 1..MaxPending :
       \E resp \in {x \in SaveResponses : x.kind = "ok" /\ x.body = "json"} :
         SaveResponse(k, resp)
  \/ handleDelete
  \/ \E k \in 1..MaxPending :
       \E resp \in {x \in DeleteResponses : x.kind = "ok"} : DeleteResponse(k, resp)
  \/ \E id \in Ids : handleSelectRecording(id)
  \/ \E k \in 1..MaxPending :
       \E resp \in {x \in RecordingResponses : x.kind = "ok"} :
         FetchRecordingResponse(k, resp)
  \/ \E resp \in {x \in ListResponses : x.kind = "ok"} : FetchRecordingsResponse(resp)
  \/ ListServed
  \/ \E k \in 1..MaxList : FetchRecordingsServed(k)
  \/ Unmount

SpecStoreOk == InitStore /\ [][NextStoreOk]_vars


\* -------------------------------------- the uploader, blobs of any type
\* uploadChunks on up to MaxTyped chunks whose declared types are drawn from
\* webm types with and without parameters, other types and the empty type.
MaxTyped == 2
ChunkTypes == BlobTypes \cup {"audio/webm;codecs=opus", "video/webm", "audio/mp4", ""}
TypedChunkSeqs ==
  UNION {[1..n -> {Blob(t, MAX_CHUNK_SIZE) : t \in ChunkTypes}] : n \in 0..MaxTyped}

InitUploader ==
  /\ Mounted
  /\ mediaRecorder = 1
  /\ recorders = [r \in Runs |-> IF r = 1 THEN "inactive" ELSE "unused"]
  /\ \E cs \in TypedChunkSeqs :
       runs = [r \in Runs |-> IF r = 1 THEN [IdleRun EXCEPT !.pc = "call", !.chunks = cs]
                                        ELSE IdleRun]
  /\ timers = {}
  /\ inflight = [r \in Runs |-> 0]
  /\ backend = [r \in Runs |-> "none"]
  /\ poller = [r \in Runs |-> "none"]
  /\ halted = {}

NextUploader ==
  \/ \E r \in Runs : ProcessAudioCall(r)
  \/ \E r \in Runs, resp \in PipelinePresignResponses : PresignResponse(r, resp)
  \/ \E r \in Runs, resp \in PipelinePutResponses : PutResponse(r, resp)

SpecUploader == InitUploader /\ [][NextUploader]_vars


\* ------------------------------------- one poll, responses that overlap
\* One stopped recording is uploaded and its workflow started; the status
\* requests of its poll may be outstanding together, and their responses
\* arrive in any order.
StoreArnResponses ==
  {resp \in PostResponses : resp.kind = "ok" /\ resp.body = "json" /\ resp.arn
                            /\ ~resp.title /\ ~resp.rest}

NextOverlap ==
  \/ \E r \in Runs : ProcessAudioCall(r)
  \/ \E r \in Runs, resp \in StorePresignResponses : PresignResponse(r, resp)
  \/ \E r \in Runs, resp \in StorePutResponses : PutResponse(r, resp)
  \/ \E r \in Runs, resp \in StoreArnResponses : ProcessAudioResponse(r, resp)
  \/ \E e \in Runs, o \in {"completed", "failed"} : WorkflowEnds(e, o)
  \/ \E t \in Runs : TickOverlapping(t)
  \/ \E t \in Runs : \E resp \in StatusResponses(t) : TickResponse(t, resp)
  \/ \E resp \in ListResponses : FetchRecordingsResponse(resp)
  \/ Render

SpecOverlap == InitStore /\ [][NextOverlap]_vars


\* ------------------------------------------------------------------ claims
\* What a status response writes when it is applied.
pollWritten == <<title, transcript, summary, keywords, status, processingStatus,
                 isEditingBeforeSave, executionArn, audioChunks, recordings>>
\* Timer t issues a status request in this step.
TickIssued(t) == inflight'[t] > inflight[t]
\* A status response of timer t is delivered in this step.
TickDelivered(t) == inflight'[t] < inflight[t]

\* C1: in every reachable state at most one poll timer created by
\* startPolling is live (created and not yet cleared).
C1_AtMostOneLiveTimer == Cardinality(timers) <= 1

\* C2: once startRecording has run while a poll was live, no further status
\* request is issued by that poll.
C2_NewSessionHaltsPoll == [][\A t \in Runs : t \in halted => ~TickIssued(t)]_vars

\* C3: a poll that a newer poll replaced before its first tick never issues a
\* status request (so no response of it can update the state either).
C3_ReplacedPollNeverTicks ==
  [][\A t \in Runs : poller[t] = "replacedUnticked" => ~TickIssued(t)]_vars

\* C4: a status response delivered after its poll was cancelled and its timer
\* cleared changes none of the state a response writes.
C4_StaleResponseNotApplied ==
  [][\A t \in Runs :
       (Cancelled(t) /\ t \notin timers /\ TickDelivered(t)) => UNCHANGED pollWritten]_vars

\* The requests of the upload loop, in the order a sequential loop issues
\* them: presign 0, put 0, presign 1, put 1, ...
InLoopOrder(log) ==
  \A j \in 1..Len(log) :
    log[j].op # "post" =>
      /\ log[j].op = (IF j % 2 = 1 THEN "presign" ELSE "put")
      /\ log[j].i = (j - 1) \div 2
HasPost(log) == \E j \in 1..Len(log) : log[j].op = "post"
LastOp(log) == IF Len(log) = 0 THEN "" ELSE log[Len(log)].op
UploadErrors == {"NetworkError", "PresignRequestError", "PresignResponseError",
                 "ChunkUploadError", "UploadEmptyError"}

\* C5: when every presign and PUT succeeded (uploadChunks returned and
\* processAudio holds its result), the N chunks got exactly N presign requests
\* and N PUTs, chunk by chunk in input order, and the i-th key returned is the
\* key obtained for the i-th chunk; with no chunk, no request is issued.
C5_AllChunksUploadedInOrder ==
  \A r \in Runs :
    /\ (runs[r].pc = "failed" /\ Len(runs[r].chunks) = 0) => runs[r].log = <<>>
    /\ runs[r].pc = "post" =>
      LET f == runs[r]
          n == Len(f.chunks)
      IN /\ Len(f.log) = 2 * n + 1
         /\ InLoopOrder(f.log)
         /\ Len(f.chunkKeys) = n
         /\ \A i \in 1..n : f.chunkKeys[i] = f.log[2 * i].key

C5_Witness ==
  \E r \in Runs :
    /\ runs[r].pc = "post"
    /\ Len(runs[r].chunks) = 3
    /\ runs[r].chunkKeys[1] # runs[r].chunkKeys[2]

\* C6: the uploader has at most one request outstanding, and issues its
\* requests in the order presign i, PUT i, presign i+1: each one only after
\* the one before it has resolved.
C6_UploadsSequential ==
  \A r \in Runs :
    /\ Len(runs[r].log) - runs[r].resolved \in {0, 1}
    /\ InLoopOrder(runs[r].log)

C6_Witness ==
  \E r \in Runs :
    /\ runs[r].pc = "presign"
    /\ Len(runs[r].log) = 3
    /\ runs[r].resolved = 2

\* C7: a presign or PUT response with a non-success status (or a rejected
\* request) for chunk k ends the upload in that step: no PUT for chunk k is
\* issued after a failed presign, chunk k's key is not recorded after a failed
\* PUT, the one error is surfaced, and the failed frame issues no further
\* request.
C7_FailureAborts ==
  [][\A r \in Runs :
       LET f == runs[r]
           g == runs'[r]
       IN /\ (f.pc \in {"presign", "put"} /\ g.resolved = f.resolved + 1
                /\ g.last \in {"http", "reject"})
             => /\ g.pc = "failed"
                /\ g.log = f.log
                /\ g.stored = f.stored
                /\ g.chunkKeys = <<>>
                /\ mounted => /\ status'.kind = "processFailed"
                              /\ status'.err \in UploadErrors
          /\ f.pc = "failed" => g = f]_vars

C7_Witness ==
  \E r \in Runs :
    /\ runs[r].pc = "failed"
    /\ runs[r].last = "http"
    /\ LastOp(runs[r].log) = "put"
    /\ Len(runs[r].stored) = 1
    /\ Len(runs[r].chunks) = 3

C9_UploadErrorAborts ==
  [][\A r \in Runs :
       LET f == runs[r]
           g == runs'[r]
       IN /\ (f.pc \in {"presign", "put"} /\ g.pc = "failed")
             => /\ g.log = f.log
                /\ timers' = timers
                /\ backend' = backend
                /\ mounted => /\ status'.kind = "processFailed"
                              /\ status'.err \in UploadErrors
                              /\ processingStatus' = "null"
          /\ (f.pc = "failed" /\ ~HasPost(f.log))
             => (g = f /\ r \notin timers' /\ backend'[r] = "none")]_vars

C9_Witness ==
  \E r \in Runs :
    /\ runs[r].pc = "failed"
    /\ ~HasPost(runs[r].log)
    /\ mounted
    /\ status.kind = "processFailed"
    /\ status.err = "ChunkUploadError"
    /\ processingStatus = "null"
    /\ timers # {}

\* C10: no request of one stopped recording is issued twice (one presign and
\* one PUT per chunk, one start-processing POST), and once its workflow
\* execution has reported failed the pipeline issues no further request.
NoRequestTwice(log) ==
  \A j, k \in 1..Len(log) : (log[j].op = log[k].op /\ log[j].i = log[k].i) => j = k
C10_NoRetry ==
  [][/\ \A r \in Runs : NoRequestTwice(runs'[r].log)
     /\ (\E t \in Runs : poller[t] = "failed") => runs' = runs]_vars

C10_Witness ==
  \E t \in Runs :
    /\ poller[t] = "failed"
    /\ Len(runs[t].chunks) = 3
    /\ Len(runs[t].log) = 7

\* The step delivers the start-processing response of run r.
PostDelivered(r) == runs[r].pc = "post" /\ runs'[r].pc # "post"

\* C11: a successful start-processing response that carries an execution
\* identifier makes processAudio record it in executionArn, create exactly
\* one poll timer for it, and return with isEditingBeforeSave untouched; a
\* status request is only ever issued by the live timer of the execution it
\* queries, and counts against that execution alone.
C11_AsyncResponseStartsOnePoll ==
  [][/\ \A r \in Runs : PostDelivered(r) => \A resp \in PostResponses :
          (resp.kind = "ok" /\ resp.body = "json" /\ resp.arn
             /\ ProcessAudioResponse(r, resp))
          => /\ r \notin timers
             /\ timers' = timers \cup {r}
             /\ runs'[r].pc = "done"
             /\ isEditingBeforeSave' = isEditingBeforeSave
             /\ mounted => executionArn' = r
     /\ \A t \in Runs :
          TickIssued(t) => /\ t \in timers
                           /\ inflight' = [inflight EXCEPT ![t] = @ + 1]]_vars

C11_Witness ==
  \E r \in Runs :
    /\ runs[r].pc = "done"
    /\ r \in timers
    /\ executionArn = r
    /\ inflight[r] = 1
    /\ ~isEditingBeforeSave

\* C12: a successful start-processing response without an execution
\* identifier that carries the result fields (a title, with or without the
\* rest) is treated as finished: no timer is created, pollingInterval and
\* executionArn are untouched, title, transcript, summary and keywords are
\* set from the response (an absent one to its default), isEditingBeforeSave
\* becomes true and processAudio returns.
C12_ImmediateResultSkipsPolling ==
  [][\A r \in Runs : PostDelivered(r) => \A resp \in PostResponses :
       (resp.kind = "ok" /\ resp.body = "json" /\ ~resp.arn /\ resp.title
          /\ ProcessAudioResponse(r, resp))
       => /\ timers' = timers
          /\ pollingInterval' = pollingInterval
          /\ executionArn' = executionArn
          /\ runs'[r].pc = "done"
          /\ mounted => /\ title' = "immediate"
                        /\ transcript' = (IF resp.rest THEN "immediate" ELSE "")
                        /\ summary' = (IF resp.rest THEN "immediate" ELSE "")
                        /\ keywords' = (IF resp.rest THEN <<"immediate">> ELSE <<>>)
                        /\ isEditingBeforeSave']_vars

C12_Witness ==
  \E r \in Runs :
    /\ runs[r].pc = "done"
    /\ r \notin timers
    /\ backend[r] = "none"
    /\ isEditingBeforeSave
    /\ title = "immediate"
    /\ keywords = <<"immediate">>

\* C13: a successful start-processing response with neither an execution
\* identifier nor result fields fails with the unexpected-response-shape
\* error: no timer is created, isEditingBeforeSave is untouched, status shows
\* the failure and processingStatus is null.
C13_UnexpectedShapeFails ==
  [][\A r \in Runs : PostDelivered(r) => \A resp \in PostResponses :
       (resp.kind = "ok" /\ resp.body = "json" /\ ~resp.arn /\ ~resp.title /\ ~resp.rest
          /\ ProcessAudioResponse(r, resp))
       => /\ timers' = timers
          /\ pollingInterval' = pollingInterval
          /\ isEditingBeforeSave' = isEditingBeforeSave
          /\ runs'[r].pc = "failed"
          /\ mounted => /\ status' = ProcessFailedMsg(Err("UnexpectedResponseShape", 0, 0))
                        /\ processingStatus' = "null"]_vars

C13_Witness ==
  \E r \in Runs :
    /\ runs[r].pc = "failed"
    /\ HasPost(runs[r].log)
    /\ runs[r].last = "ok"
    /\ status = ProcessFailedMsg(Err("UnexpectedResponseShape", 0, 0))
    /\ processingStatus = "null"
    /\ r \notin timers

\* C14: every non-success HTTP status of the start-processing endpoint,
\* whatever the error body, fails with the processing-start error carrying
\* that status (and the server's message when the body has one); no timer is
\* created.
C14_StartErrorCarriesStatus ==
  [][\A r \in Runs : PostDelivered(r) => \A resp \in PostResponses :
       (resp.kind = "http" /\ ProcessAudioResponse(r, resp))
       => /\ timers' = timers
          /\ runs'[r].pc = "failed"
          /\ mounted => /\ status'.kind = "processFailed"
                        /\ status'.err = "ProcessingStartError"
                        /\ status'.n1 = resp.code
                        /\ status'.n2 = (IF resp.body = "error" THEN 1 ELSE 0)]_vars

\* The completion path of a tick of timer t: the timer is cleared, the
\* execution id is cleared, edit-before-save is entered with processingStatus
\* null, and one list re-fetch is issued.
CompletionPath(t) ==
  /\ t \notin timers'
  /\ listInflight' = listInflight + 1
  /\ mounted => /\ executionArn' = 0
                /\ isEditingBeforeSave'
                /\ processingStatus' = "null"

\* C15: every tick that receives status completed takes the completion path.
C15_CompletedEntersEdit ==
  [][\A t \in Runs : TickDelivered(t) => \A resp \in StatusResponses(t) :
       (resp.kind = "completed" /\ TickResponse(t, resp)) => CompletionPath(t)]_vars

\* C16: a completed response whose result.result is a string of JSON that
\* decodes to an object sets title, transcript, summary and keywords from the
\* decoded object (an absent field to its default), never from the envelope
\* around it.
C16_NestedPayloadDecoded ==
  [][\A t \in Runs : TickDelivered(t) => \A resp \in StatusResponses(t) :
       (resp.kind = "completed" /\ resp.payload.shape = "nestedOk"
          /\ TickResponse(t, resp))
       => (mounted => /\ title' = TitleOr(resp.payload.inner.title)
                      /\ transcript' = resp.payload.inner.rest
                      /\ summary' = resp.payload.inner.rest
                      /\ keywords' = KeywordsOr(resp.payload.inner.rest))]_vars

C16_Witness ==
  /\ mounted
  /\ isEditingBeforeSave
  /\ title = "inner"
  /\ transcript = "inner"
  /\ keywords = <<"inner">>

\* C17: when the nested string of a completed response is not JSON, the
\* completion path is still taken and title, transcript, summary and keywords
\* take their defaults.
C17_DecodeFailureDefaults ==
  [][\A t \in Runs : TickDelivered(t) => \A resp \in StatusResponses(t) :
       (resp.kind = "completed" /\ resp.payload.shape = "nestedBad"
          /\ TickResponse(t, resp))
       => /\ CompletionPath(t)
          /\ mounted => /\ title' = "untitled"
                        /\ transcript' = ""
                        /\ summary' = ""
                        /\ keywords' = <<>>]_vars

\* C18: a tick that receives status failed clears its timer and the
\* execution id, sets status to the failure text with the server's error (or
\* the generic one), sets processingStatus to null, issues no list re-fetch,
\* and leaves recordings, title, transcript, summary, keywords and
\* isEditingBeforeSave unchanged.
C18_FailedStopsPolling ==
  [][\A t \in Runs : TickDelivered(t) => \A resp \in StatusResponses(t) :
       (resp.kind = "failed" /\ TickResponse(t, resp))
       => /\ t \notin timers'
          /\ listInflight' = listInflight
          /\ UNCHANGED <<recordings, resultFields, isEditingBeforeSave>>
          /\ mounted => /\ executionArn' = 0
                        /\ status'.kind = "pollFailed"
                        /\ status'.err = (IF resp.error THEN "serverError" ELSE "unknown")
                        /\ processingStatus' = "null"]_vars

C18_Witness ==
  \E t \in Runs :
    /\ poller[t] = "failed"
    /\ mounted
    /\ t \notin timers
    /\ executionArn = 0
    /\ status.kind = "pollFailed"
    /\ status.err = "serverError"
    /\ processingStatus = "null"
    /\ ~isEditingBeforeSave

\* C19: a tick whose response status is neither completed nor failed leaves
\* the timers, pollingInterval, the execution id, the result fields, status
\* and recordings unchanged and sets processingStatus: to the percent text
\* whenever the response carries a percent-complete value (0 included),
\* otherwise to the server's message or the generic one.
C19_ProgressUpdatesText ==
  [][\A t \in Runs : TickDelivered(t) => \A resp \in StatusResponses(t) :
       (resp.kind = "progress" /\ TickResponse(t, resp))
       => /\ UNCHANGED <<timers, pollingInterval, executionArn, resultFields,
                         isEditingBeforeSave, recordings, status, listInflight>>
          /\ mounted => processingStatus' =
                          (IF resp.pct >= 0 THEN "percent"
                           ELSE IF resp.message THEN "serverMessage"
                           ELSE "defaultProgress")]_vars

\* C20: a tick whose status request fails (the fetch rejects or the body
\* does not parse) changes neither the timers nor pollingInterval, the
\* execution id or the poller's state; it surfaces the generic message in
\* status.  The timer, still live, goes on issuing requests however many have
\* failed.
C20_FetchErrorKeepsPolling ==
  [][\A t \in Runs : TickDelivered(t) => \A resp \in StatusResponses(t) :
       (resp.kind = "error" /\ TickResponse(t, resp))
       => /\ UNCHANGED <<timers, pollingInterval, executionArn, poller,
                         resultFields, isEditingBeforeSave, recordings, listInflight>>
          /\ mounted => status' = Msg("statusFetchFailed")]_vars

C20_Witness ==
  \E t \in Runs :
    /\ timers = {t}
    /\ \A u \in Runs \ {t} : poller[u] = "none"
    /\ poller[t] = "polling"
    /\ status = Msg("statusFetchFailed")
    /\ inflight[t] = 1

\* C21: once the poll of an execution is Completed, Failed or Cancelled, no
\* status request is issued for that execution again, and a poll only ever
\* starts for an execution that had none before.
C21_TerminalNeverResumes ==
  [][\A t \in Runs :
       /\ Terminal(t) => ~TickIssued(t)
       /\ (poller'[t] = "fresh" /\ poller[t] # "fresh") => poller[t] = "none"]_vars

\* C22: unmounting clears every live poll timer, and a poll that was
\* cancelled issues no status request once the component is unmounted.
C22_UnmountCancelsPoll ==
  [][/\ (mounted /\ ~mounted') => timers' = {}
     /\ \A t \in Runs : (~mounted /\ Cancelled(t)) => ~TickIssued(t)]_vars

\* C23: end to end.  A recording whose two chunks were both stored, whose
\* start-processing response carried an execution id and whose poll has
\* ticked: the tick that receives completed with inline result fields leaves
\* the UI in edit-before-save with title, transcript, summary and keywords
\* set from those fields and no timer live; after it no status request is
\* issued.
C23_EndToEnd ==
  [][/\ \A t \in Runs : TickDelivered(t) => \A resp \in StatusResponses(t) :
          (Len(runs[t].chunks) = 2 /\ Len(runs[t].stored) = 2
             /\ poller[t] = "polling" /\ resp.kind = "completed"
             /\ resp.payload.shape = "inline" /\ resp.payload.outer.title # ""
             /\ TickResponse(t, resp))
          => /\ timers' = {}
             /\ poller'[t] = "completed"
             /\ mounted => /\ isEditingBeforeSave'
                           /\ title' = resp.payload.outer.title
                           /\ transcript' = resp.payload.outer.rest
                           /\ summary' = resp.payload.outer.rest
                           /\ keywords' = <<resp.payload.outer.rest>>
     /\ \A t \in Runs : poller[t] = "completed" => ~TickIssued(t)]_vars

C23_Witness ==
  \E t \in Runs :
    /\ Len(runs[t].chunks) = 2
    /\ Len(runs[t].stored) = 2
    /\ poller[t] = "completed"
    /\ timers = {}
    /\ inflight[t] = 0
    /\ isEditingBeforeSave
    /\ title = "outer"
    /\ transcript = "outer"
    /\ keywords = <<"outer">>
    /\ processingStatus = "null"

\* C24: for a blob of any type and of a size under, at or over the
\* threshold, createChunks returns the one-element sequence holding that
\* blob; and whatever the state, the chunks processAudio uploads for a
\* recorded blob are that blob alone.
C24_ChunkerReturnsInput ==
  [][/\ \A t \in BlobTypes, z \in BlobSizes :
          createChunks(Blob(t, z)) = <<Blob(t, z)>>
     /\ \A r \in Runs, size \in BlobSizes :
          RecorderOnStop(r, size) => runs'[r].chunks = <<Blob("audio/webm", size)>>]_vars

C24_Witness ==
  \E r \in Runs :
    /\ runs[r].pc = "post"
    /\ runs[r].chunks = <<Blob("audio/webm", MAX_CHUNK_SIZE + 1)>>
    /\ Len(runs[r].stored) = 1

\* A click on the record button opens a session (649-655, isRecording false).
RecordClickStarts == ~isRecording

\* A click on the record button stops the active recorder (618-626), and
\* the click after it opens a session.
RecordClickStops ==
  isRecording /\ mediaRecorder # 0 /\ recorders[mediaRecorder] = "recording"

\* A microphone request is outstanding: startRecording has yet to resume.
MicrophonePending == \E s \in Runs : recorders[s] = "pending"

\* C27: in every reachable state of the mounted component in which a session
\* is left to open, the user can re-initiate a recording by clicking the
\* record button: the click starts a session, or it stops the active
\* recorder so that the next click starts one, or a microphone request is
\* still to resolve.  No state leaves the button without effect for good.
C27_Recoverable ==
  (mounted /\ \E s \in Runs : recorders[s] = "unused")
    => RecordClickStarts \/ RecordClickStops \/ MicrophonePending

\* The state the failed recorder construction leaves is a trap: while the
\* component is mounted no step leaves it.
C27_TrapIsClosed ==
  [][(mounted /\ ~(RecordClickStarts \/ RecordClickStops \/ MicrophonePending))
       => (mounted' => ~(RecordClickStarts \/ RecordClickStops \/ MicrophonePending)')]_vars

\* C28: within one session the stages run in order.  The start-processing
\* POST is issued only once every chunk's PUT has succeeded and nothing of
\* the upload is outstanding; a status request of the session is issued only
\* after its start-processing response has arrived (successfully); and a
\* status response issues the list re-fetch only when it is a `completed`
\* one.
C28_StagesOrdered ==
  [][/\ \A r \in Runs :
          (HasPost(runs'[r].log) /\ ~HasPost(runs[r].log))
          => /\ Len(runs'[r].chunks) > 0
             /\ Len(runs'[r].stored) = Len(runs'[r].chunks)
             /\ runs'[r].resolved = 2 * Len(runs'[r].chunks)
             /\ Len(runs'[r].log) = runs'[r].resolved + 1
     /\ \A t \in Runs :
          TickIssued(t)
          => /\ LastOp(runs[t].log) = "post"
             /\ runs[t].resolved = Len(runs[t].log)
             /\ runs[t].pc = "done"
     /\ \A t \in Runs :
          (TickDelivered(t) /\ listInflight' > listInflight)
          => /\ backend[t] = "completed"
             /\ \A resp \in StatusResponses(t) :
                  resp.kind # "completed" => ~TickResponse(t, resp)]_vars

C28_Witness ==
  \E t \in Runs :
    /\ Len(runs[t].chunks) = 3
    /\ Len(runs[t].stored) = 3
    /\ runs[t].pc = "done"
    /\ poller[t] = "completed"
    /\ isEditingBeforeSave
    /\ listInflight = MaxList
    /\ status = Msg("listing")

\* The presign request of run r resolves in this step.
PresignDelivered(r) == runs[r].pc = "presign" /\ runs'[r].pc # "presign"

\* The step issues a PUT of run r.
PutIssued(r) ==
  /\ Len(runs'[r].log) = Len(runs[r].log) + 1
  /\ LastOp(runs'[r].log) = "put"

\* C29: when a presign request is answered successfully and the body holds
\* no presigned URL and no key, neither direct nor as a non-empty last
\* segment of an audio URL, uploadChunks raises the presign-response error
\* (no PUT, the run fails, the error is shown); and whenever a PUT is issued
\* the body held a presigned URL and a key, direct or derivable.
C29_PresignResponseChecked ==
  [][\A r \in Runs : PresignDelivered(r) =>
       \A resp \in PresignResponses :
         (resp.kind = "ok" /\ PresignResponse(r, resp))
         => LET b == resp.body
                derivable == b.audioUrl # NoUrl /\ b.audioUrl[Len(b.audioUrl)] # ""
            IN /\ (b.presignedUrl = "" /\ b.key = "" /\ ~derivable)
                  => /\ runs'[r].pc = "failed"
                     /\ runs'[r].log = runs[r].log
                     /\ mounted => status' = ProcessFailedMsg(Err("PresignResponseError", 0, 0))
               /\ PutIssued(r)
                  => /\ b.presignedUrl # ""
                     /\ b.key # "" \/ derivable
                     /\ runs'[r].key # ""]_vars

C29_Witness ==
  \E r \in Runs :
    /\ runs[r].pc = "failed"
    /\ runs[r].last = "invalid"
    /\ LastOp(runs[r].log) = "presign"
    /\ Len(runs[r].stored) = 1
    /\ status = ProcessFailedMsg(Err("PresignResponseError", 0, 0))

\* C30: the key a successful presign response records for its chunk (the
\* key the PUT is made under and, after the PUT, the key pushed to the
\* result) is the body's key when it has one, whether or not an audio URL
\* comes with it; when it has none, the last path segment of the audio URL.
C30_KeyPreferredToDerived ==
  [][\A r \in Runs :
       /\ PresignDelivered(r) =>
            \A resp \in PresignResponses :
              (resp.kind = "ok" /\ PresignResponse(r, resp) /\ PutIssued(r))
              => LET b == resp.body
                     key == runs'[r].log[Len(runs'[r].log)].key
                 IN /\ runs'[r].key = key
                    /\ b.key # "" => key = b.key
                    /\ b.key = "" => (b.audioUrl # NoUrl /\ key = b.audioUrl[Len(b.audioUrl)])
       /\ (runs[r].pc = "put" /\ runs'[r].pc \in {"presign", "post"})
            => LET n == Len(runs[r].uploadedUrls) IN
               IF runs'[r].pc = "post"
               THEN runs'[r].chunkKeys = Append(runs[r].uploadedUrls, runs[r].key)
               ELSE runs'[r].uploadedUrls = Append(runs[r].uploadedUrls, runs[r].key)]_vars

C30_Witness ==
  \E r \in Runs :
    /\ runs[r].pc = "post"
    /\ runs[r].chunkKeys = <<"k3", "k1">>

\* C25: a save or delete whose response is a success (for the save, with a
\* body that parses) issues one list request in the step its response
\* arrives in, and a save or delete that fails issues none; the click that
\* sends the mutation issues none either; and `recordings` is only ever
\* changed by a list response arriving: neither operation touches it.
C25_MutationsRefetch ==
  [][/\ \A k \in 1..Len(pending) :
          /\ \A resp \in SaveResponses :
               SaveResponse(k, resp)
               => /\ listInflight' = listInflight
                                     + (IF resp.kind = "ok" /\ resp.body = "json" THEN 1 ELSE 0)
                  /\ recordings' = recordings
          /\ \A resp \in DeleteResponses :
               DeleteResponse(k, resp)
               => /\ listInflight' = listInflight + (IF resp.kind = "ok" THEN 1 ELSE 0)
                  /\ recordings' = recordings
     /\ Len(pending') > Len(pending)
          => (listInflight' = listInflight /\ recordings' = recordings)
     /\ (mounted' /\ recordings' # recordings) => listInflight' = listInflight - 1]_vars

C25_Witness ==
  /\ mounted
  /\ status = Msg("saved")
  /\ ~isEditingBeforeSave
  /\ selectedRecording \in items
  /\ selectedRecording \notin Range(recordings)
  /\ listInflight > 0
  /\ pending = <<>>

C25_WitnessDelete ==
  /\ mounted
  /\ status = Msg("deleted")
  /\ selectedRecording = 0
  /\ \E id \in Range(recordings) : id \notin items
  /\ listInflight > 0
  /\ pending = <<>>

\* C26: with every mutation a success and every list request resolved
\* successfully, once no list request and no mutation is outstanding the
\* list shown is the backend's recordings (latest first), whatever the order
\* the list responses arrived in.
C26_NoDrift ==
  (mounted /\ listInflight = 0 /\ pending = <<>>) => recordings = SortDesc(items)

\* C31: every presign request of chunk i carries audio/webm when the
\* chunk's declared type contains webm and audio/wav otherwise, and the PUT
\* of chunk i carries the content type of chunk i's presign request.
C31_ContentTypeMatches ==
  \A r \in Runs :
    LET f == runs[r] IN
    \A j \in 1..Len(f.log) :
      /\ f.log[j].op = "presign"
           => f.log[j].ct = (IF IncludesWebm(f.chunks[f.log[j].i + 1].type)
                             THEN "audio/webm" ELSE "audio/wav")
      /\ f.log[j].op = "put"
           => /\ j > 1
              /\ f.log[j - 1].op = "presign"
              /\ f.log[j - 1].i = f.log[j].i
              /\ f.log[j].ct = f.log[j - 1].ct

C31_Witness ==
  \E r \in Runs :
    /\ runs[r].pc = "post"
    /\ runs[r].chunks = <<Blob("audio/webm;codecs=opus", MAX_CHUNK_SIZE),
                          Blob("", MAX_CHUNK_SIZE)>>
    /\ runs[r].log[2].ct = "audio/webm"
    /\ runs[r].log[4].ct = "audio/wav"

\* A successful list response arrives in this step.
ListDelivered == listInflight' = listInflight - 1

\* seq holds each recording of S once, latest (highest rank) first.
SortedDescOf(seq, S) ==
  /\ Len(seq) = Cardinality(S)
  /\ Range(seq) = S
  /\ \A j \in 1..(Len(seq) - 1) : seq[j] >= seq[j + 1]

C33_CompletionOnce ==
  [][\A t \in Runs :
       (TickDelivered(t) /\ listInflight' > listInflight) => poller[t] # "completed"]_vars

\* C34: once a response of execution t has reported completed or failed, a
\* later response of the same poll writes nothing: the text shown, the
\* progress text, the result fields, edit-before-save and the list requests
\* stay as they are.
C34_TerminalPollIsSilent ==
  [][\A t \in Runs :
       (poller[t] \in {"completed", "failed"} /\ TickDelivered(t))
       => /\ processingStatus' = processingStatus
          /\ status' = status
          /\ resultFields' = resultFields
          /\ isEditingBeforeSave' = isEditingBeforeSave
          /\ listInflight' = listInflight]_vars

\* C35: while the component is mounted, every live poll timer polls the
\* execution executionArn holds; no step (resetState among them) leaves a
\* timer live with executionArn null or another execution's id.
C35_ArnTracksTimer ==
  mounted => \A t \in timers : executionArn = t

\* C36: a response with status completed clears the timer and the tracked
\* execution id whatever its result is; when the result is missing, null or
\* decodes to null the tick's error handler then runs (status and
\* processingStatus are the catch's); and a cleared timer of a started
\* execution stays cleared and issues no status request.
C36_CompletedAlwaysStops ==
  [][\A t \in Runs :
       /\ TickDelivered(t) =>
            \A resp \in StatusResponses(t) :
              (resp.kind = "completed" /\ TickResponse(t, resp))
              => /\ t \notin timers'
                 /\ mounted => (executionArn' = 0 /\ pollingInterval' = 0)
                 /\ (mounted /\ resp.payload.shape \in {"missing", "nestedNull"})
                      => /\ status' = Msg("statusFetchFailed")
                         /\ processingStatus' = "null"
                         /\ isEditingBeforeSave' = isEditingBeforeSave
       /\ (runs[t].pc = "done" /\ t \notin timers)
            => (t \notin timers' /\ ~TickIssued(t))]_vars

C36_Witness ==
  \E t \in Runs :
    /\ mounted
    /\ runs[t].pc = "done"
    /\ backend[t] = "completed"
    /\ poller[t] = "completed"
    /\ timers = {}
    /\ executionArn = 0
    /\ status = Msg("statusFetchFailed")
    /\ processingStatus = "null"
    /\ ~isEditingBeforeSave
    /\ inflight[t] = 0

\* C37: a save that fails (rejected, non-success status, or a body that
\* does not parse) changes only the status text and the loading flag, which
\* is false again: edit-before-save, the result fields, the selection and
\* the list are as before.  A delete that fails changes only the status
\* text: the selection, the list and everything resetState clears are as
\* before.  Neither issues a request.
C37_FailedMutationKeepsState ==
  [][\A k \in 1..Len(pending) :
       /\ \A resp \in SaveResponses :
            (~(resp.kind = "ok" /\ resp.body = "json") /\ SaveResponse(k, resp))
            => /\ UNCHANGED <<isEditingBeforeSave, resultFields, selectedRecording,
                              recordings, audioChunks, processingStatus, executionArn,
                              listInflight>>
               /\ mounted => (status'.kind = "saveFailed" /\ ~isLoading')
               /\ pending' = RemoveAt(pending, k)
       /\ \A resp \in DeleteResponses :
            (resp.kind # "ok" /\ DeleteResponse(k, resp))
            => /\ UNCHANGED <<isEditingBeforeSave, resultFields, selectedRecording,
                              recordings, audioChunks, processingStatus, executionArn,
                              listInflight, isLoading, items>>
               /\ mounted => status'.kind = "deleteFailed"
               /\ pending' = RemoveAt(pending, k)]_vars

C37_Witness ==
  /\ mounted
  /\ status.kind = "saveFailed"
  /\ isEditingBeforeSave
  /\ title = "immediate"
  /\ ~isLoading
  /\ selectedRecording = 0
  /\ pending = <<>>

C37_WitnessDelete ==
  /\ mounted
  /\ status.kind = "deleteFailed"
  /\ selectedRecording # 0
  /\ title = "stored"
  /\ selectedRecording \in Range(recordings)
  /\ pending = <<>>

\* A detail request (GET by id) is outstanding.
DetailOutstanding == \E j \in 1..Len(pending) : pending[j].op = "get"

\* C38: once every detail request has resolved (successfully), the recording
\* shown is the one the user selected last, whichever response arrived
\* last.
C38_LatestSelectionWins ==
  (mounted /\ lastSelected # 0 /\ ~DetailOutstanding) => selectedRecording = lastSelected

\* C39: at most one MediaRecorder is recording, and mediaRecorder.current
\* is that recorder, so that stopRecording can stop it.
C39_OneActiveRecorder ==
  \A s \in Runs : recorders[s] = "recording" => mediaRecorder = s

====
